---- MODULE Spec2Model ----
(***************************************************************************)
(* Geospatial tiling and interferometric pair selection of strato-backup.  *)
(*                                                                         *)
(* Tiling    : GeoTileMapper.generate_tiles driven by                      *)
(*             ASFDataDownloader.execute, and area_tiler.create_tiles      *)
(*             driven by area_tiler.main.                                  *)
(*                                                                         *)
(* Numbers.  Latitudes and longitudes are Python floats.  They are         *)
(* modelled on an integer grid whose spacing stands for the spacing of the *)
(* floats around the running coordinate: products and quotients are kept   *)
(* exact (numerator / denominator) and every sum that is stored in a       *)
(* coordinate is rounded to the grid, to nearest, ties to even (FAdd).     *)
(***************************************************************************)
EXTENDS Integers, Sequences, FiniteSets, TLC

\* ------------------------------------------------------------------ bounds
\* region corners are multiples of GridPerUnit grid steps, 0..MaxCoord units
MaxCoord == 2
GridPerUnit == 4
\* the walk is cut after MaxTiles tiles (it need not end by itself)
MaxTiles == 20
\* at most MaxRows rows in the table, acquisition dates day 0..MaxDate of 2020
MaxRows == 3
MaxDate == 1
\* a --pairs file holds at most MaxRuns runs of at most MaxRepeat equal rows
MaxRuns == 2
MaxRepeat == 2
\* at most MaxCandidates files match one glob pattern
MaxCandidates == 2
\* at most MaxGranules granules in the CSV, footprint corners at 0..MaxCorner
MaxGranules == 2
\* runs of the --pairs file, and pairs of rows of the table, in a dry run and
\* its repetition
MaxDryRows == 1
\* interferogram directories under merge/ and workers of --parallel
MaxIfgs == 2
MaxWorkers == 2
\* the files the pairs CSV may name, and its rows
MaxFiles == 3
MaxCsvRows == 2
MaxCorner == 1

\* ------------------------------------------------------- program constants
\* geopy.distance.geodesic(...).km along an axis, per grid step
KmPerStep == 111
MetersPerKm == 1000
\* "percentage / 100"
PercentDen == 100

\* "if counter >= 100000: break"
COUNTER_CAP == 100000

\* float('nan'): min() and max() of an empty column, a NULL read as a number
NaN == -1

\* ------------------------------------------------------------ input domains
Coords == { GridPerUnit * k : k \in 0..MaxCoord }
\* area bounds with min < max on both axes
Regions ==
  { r \in [min_lat : Coords, max_lat : Coords, min_lon : Coords, max_lon : Coords] :
      r.min_lat < r.max_lat /\ r.min_lon < r.max_lon }
\* the region lat 10 to 10.5, lon 20 to 20.5, in quarter degrees
ExampleRegion == [min_lat |-> 40, max_lat |-> 42, min_lon |-> 80, max_lon |-> 82]
\* what the user gives as tile percentage (--tile_percentage, input())
Percentages == {-50, 0, 1, 10, 30, 50, 100, 150}
Impls == {"GeoTileMapper", "area_tiler"}

\* rows of slc_data: granule names are unique, the k-th row holds granule k
Dates == 0..MaxDate
Paths == {35, 108}
Orbits == {0, 1, 2}
Thresholds == {0, 1}
RowValues == [acquisition_date : Dates, path_number : Paths, orbit : Orbits]
\* the k-th row of the table: granule k with the values v
NamedRow(k, v) ==
  [granule_name |-> k, acquisition_date |-> v.acquisition_date,
   path_number |-> v.path_number, orbit |-> v.orbit]
\* "ORDER BY acquisition_date": rows of equal date come in any order
Sorted(rows) ==
  \A k \in 1..(Len(rows) - 1) : rows[k].acquisition_date <= rows[k + 1].acquisition_date
\* the tables of n rows with values in vals, each a table of n - 1 rows and a
\* row that is not earlier
RECURSIVE TablesOver(_, _)
TablesOver(vals, n) ==
  IF n = 0 THEN {<<>>}
  ELSE UNION { { Append(t, NamedRow(n, v)) :
                   v \in { w \in vals : Sorted(Append(t, NamedRow(n, w))) } } :
               t \in TablesOver(vals, n - 1) }
TablesOfLen(n) == TablesOver(RowValues, n)
Tables == UNION { TablesOfLen(n) : n \in 0..MaxRows }
\* three granules of path 35 of 1 January, 13 January and 20 February 2020
\* with orbit values 10, 40 and 15
ExampleTable ==
  <<NamedRow(1, [acquisition_date |-> 0, path_number |-> 35, orbit |-> 10]),
    NamedRow(2, [acquisition_date |-> 12, path_number |-> 35, orbit |-> 40]),
    NamedRow(3, [acquisition_date |-> 50, path_number |-> 35, orbit |-> 15])>>
\* lists of rows are kept as runs of equal consecutive rows: [row, n]
Granules == 1..MaxRows
CsvRows == [master : 1..2, slave : 1..2, path : Paths]
CsvRuns == [row : CsvRows, n : 1..MaxRepeat]
CsvFiles == UNION { [1..k -> CsvRuns] : k \in 0..MaxRuns }
\* a --pairs file of COUNTER_CAP + 1 rows
LongCsvFiles ==
  { <<[row |-> [master |-> 1, slave |-> 2, path |-> 35], n |-> COUNTER_CAP + 1]>> }
ZipKeys == Paths \X Granules
Unseen == -1
BatchScripts == {"generate_topsApp_batch", "generate_topsApp_batch_"}
PairScripts ==
  {"select_s1_pairs_from_postgres", "select_s1_pairs_from_postgres_", "initialPairs"}

VARIABLES
  impl,         \* which script runs: ASFDataDownloader (GeoTileMapper) or area_tiler
  area_bounds,  \* area_bounds / (min_lat, min_lon, max_lat, max_lon)
  percentage,   \* tile_percentage / percentage
  pc,           \* position of the running script
  lat,          \* lat / current_lat
  lon,          \* lon / current_lon
  tile_bounds,  \* the last tile built by the inner loop
  tiles,        \* the list tiles / the values of the dict tiles, in insertion order
  tile_id,      \* tile_id (area_tiler) / i of enumerate (execute)
  names         \* names[k] = n: the k-th tile is named tile_n

tvars == <<impl, area_bounds, percentage, pc, lat, lon, tile_bounds, tiles,
           tile_id, names>>

VARIABLES
  script,       \* which pair script runs
  df,           \* the rows read from the table, ORDER BY acquisition_date
  bmax,         \* --bmax
  tmax,         \* --tmax / temporalBaselineMax
  pairs,        \* the list pairs
  ppc           \* position of the pair script

pvars == <<script, df, bmax, tmax, pairs, ppc>>

VARIABLES
  rscript,      \* which batch generator runs
  csv,          \* the rows of the file given as --pairs
  dry_run,      \* --dry_run
  zips,         \* zips[path, g]: how many files of path_<path> match *<g>*.zip
  pairs_df,     \* pairs_df / df: the rows the loop goes through
  row_i,        \* the loop is in the row_i-th run of rows
  row_off,      \* rows of that run already gone through
  counter,      \* counter
  valid,        \* valid / valid_pairs
  missing,      \* missing / missing_pairs
  xmls,         \* the topsApp.xml files written
  rpc           \* position of the batch generator

rvars == <<rscript, csv, dry_run, zips, pairs_df, row_i, row_off, counter, valid,
           missing, xmls, rpc>>

VARIABLES
  run,          \* 1 in the first call of the tile generator, 2 in a second call
  first_tiles   \* what the first call returned

dvars == <<run, first_tiles>>

VARIABLES
  granules,     \* self.granules / df: the rows of the granule CSV
  bpc,          \* position of the bounds computation and tile membership
  selected      \* the rows of granules that select_granules_for_tile returned

gvars == <<granules, bpc, selected>>

VARIABLES
  args,         \* the keyword arguments of ASFDataDownloader.execute
  downloads,    \* the calls of download_granules: tile name and rows handed over
  xpc           \* position of ASFDataDownloader.execute run on a granule CSV

xvars == <<args, downloads, xpc>>

VARIABLES
  first_valid,  \* valid / valid_pairs of a first call of the batch generator
  first_missing \* missing / missing_pairs of a first call

bvars == <<first_valid, first_missing>>

VARIABLES
  uargs,        \* args of unwrap_driver.main
  ifgs,         \* ifgs = detect_ifgs(merge), the directories by their rank
  disk0,        \* the files under merge/ when main starts
  disk,         \* the files under merge/ now
  fails,        \* the directories in which snaphu_interp.csh exits non-zero
  cmd_found,    \* snaphu_interp.csh is on PATH
  mask_path,    \* mask_path
  jobs,         \* jobs[d]: how far unwrap_one(d, ...) has come
  futs,         \* futs[d]: what unwrap_one(d, ...) returned
  results,      \* results
  commands,     \* the external commands run so far
  report,       \* len(ok) and len(bad) of the summary
  upc           \* position of main

uvars == <<uargs, ifgs, disk0, disk, fails, cmd_found, mask_path, jobs, futs,
           results, commands, report, upc>>

VARIABLES
  s_path,       \* select_s1_pairs_from_postgres_.py: rank of path among the unique paths
  s_i,          \* i, counted from 1
  s_j,          \* j, counted from 1
  s_pairs,      \* pairs
  s_kept,       \* the rows (path, granule of row i, granule of row j) appended for
  spc           \* position of the script

svars == <<s_path, s_i, s_j, s_pairs, s_kept, spc>>

VARIABLES
  data,         \* processPairs.py: the rows (master, slave) of the pairs CSV
  config,       \* MINYEAR, MAXYEAR, MINFRAME, MAXFRAME of the configuration
  file_list,    \* fileList
  ipairs,       \* pairs = getInitPairs(fileList, masterList, slaveList)
  cpc           \* position of processPairs.py

cvars == <<data, config, file_list, ipairs, cpc>>

evars == <<xvars, bvars, uvars, svars, cvars>>
\* the variables of evars that execute leaves alone
xrest == <<bvars, uvars, svars, cvars>>
\* the variables of evars that unwrap_driver leaves alone
urest == <<xvars, bvars, svars, cvars>>
\* the variables of evars that the pair script leaves alone
srest == <<xvars, bvars, uvars, cvars>>
\* the variables of evars that processPairs.py leaves alone
crest == <<xvars, bvars, uvars, svars>>

vars == <<tvars, pvars, rvars, dvars, gvars, evars>>

\* ------------------------------------------------------------ float helpers
Min(a, b) == IF a <= b THEN a ELSE b
Abs(a) == IF a < 0 THEN -a ELSE a

\* nearest integer to num/den (den > 0), ties to even
RoundHalfEven(num, den) ==
  LET q == num \div den
      r == num % den
  IN  IF 2 * r > den THEN q + 1
      ELSE IF 2 * r < den THEN q
      ELSE IF q % 2 = 0 THEN q ELSE q + 1

\* the float sum x + num/den, rounded to the grid
FAdd(x, num, den) == RoundHalfEven(x * den + num, den)

\* ------------------------------------------------------------------ tiling
\* geodesic(p, q).km between two points on one axis
GeodesicKm(a, b) == KmPerStep * Abs(b - a)
\* geodesic(p, q).meters
GeodesicMeters(a, b) == MetersPerKm * GeodesicKm(a, b)

\* mutant of StepNum: the tile takes what the percentage leaves, 1 - percentage / 100
StepNumComplement(lo, hi, p) == (GeodesicKm(lo, hi) * (PercentDen - p)) * (hi - lo)
\* GeoTileMapper.generate_tiles: the increment added to the running coordinate,
\*   (tile_km / area_km) * (max - min) with tile_km = area_km * (percentage / 100),
\* as the fraction num / den
StepNum(lo, hi, p) == (GeodesicKm(lo, hi) * p) * (hi - lo)
\* mutant of StepDen: the percentage is taken as a fraction, not divided by 100
StepDenNoPercent(lo, hi) == GeodesicKm(lo, hi)
StepDen(lo, hi) == PercentDen * GeodesicKm(lo, hi)

\* min(x + increment, max)
ClippedEdge(x, lo, hi, p) == Min(FAdd(x, StepNum(lo, hi, p), StepDen(lo, hi)), hi)

\* the dict tile_bounds of generate_tiles at (lat, lon)
TileBounds(b, p, la, lo) ==
  [min_lat |-> la,
   max_lat |-> ClippedEdge(la, b.min_lat, b.max_lat, p),
   min_lon |-> lo,
   max_lon |-> ClippedEdge(lo, b.min_lon, b.max_lon, p)]

\* area_tiler.compute_tile_dimensions: tile_height, tile_width in metres, as num/100
TileDimNum(lo, hi, p) == GeodesicMeters(lo, hi) * p

\* area_tiler.create_tiles: x + tile_height (x + tile_width), metres added to degrees
UnclippedEdge(x, lo, hi, p) == FAdd(x, TileDimNum(lo, hi, p), PercentDen)

\* the bounds of tile_polygon of create_tiles at (current_lat, current_lon)
TilePolygon(b, p, la, lo) ==
  [min_lat |-> la,
   max_lat |-> UnclippedEdge(la, b.min_lat, b.max_lat, p),
   min_lon |-> lo,
   max_lon |-> UnclippedEdge(lo, b.min_lon, b.max_lon, p)]

\* ---------------------------------------------- generate_tiles as a function
\* The walk of generate_tiles(area_bounds, percentage) run to its end; the
\* result is [tiles, returned]: returned is FALSE when the walk was cut after
\* MaxTiles tiles.
RECURSIVE InnerWalk(_, _, _, _, _)
InnerWalk(b, p, la, lo, acc) ==
  IF ~(lo < b.max_lon) THEN [tiles |-> acc, returned |-> TRUE]
  ELSE IF Len(acc) >= MaxTiles THEN [tiles |-> acc, returned |-> FALSE]
  ELSE LET t == TileBounds(b, p, la, lo)
       IN  InnerWalk(b, p, la, t.max_lon, Append(acc, t))

RECURSIVE OuterWalk(_, _, _, _)
OuterWalk(b, p, la, acc) ==
  IF ~(la < b.max_lat) THEN [tiles |-> acc, returned |-> TRUE]
  ELSE LET row == InnerWalk(b, p, la, b.min_lon, acc)
       IN  IF ~row.returned THEN row
           ELSE OuterWalk(b, p, row.tiles[Len(row.tiles)].max_lat, row.tiles)

GenerateTiles(b, p) == OuterWalk(b, p, b.min_lat, <<>>)

\* mutant of StartTiles: the list of an earlier call is kept
StartTilesKept(prev) == prev
\* "tiles = []" / "tiles = {}": a call starts with an empty list, whatever an
\* earlier call left
StartTiles(prev) == <<>>

NoTile == [min_lat |-> 0, max_lat |-> 0, min_lon |-> 0, max_lon |-> 0]

\* enumerate(tiles, start=1) and tile_id = 1
FirstTileId == 1
\* mutant of NextTileId: the ordinal is not advanced
NextTileIdStuck(i) == i
\* tile_id += 1 / the next i of enumerate
NextTileId(i) == i + 1

\* an argument that was not given: None
None == {}
\* bool(x) of an optional number: None and 0 are false
Truthy(x) == x # None /\ x # {0}

\* execute is not run on a granule CSV
DownloadIdle ==
  /\ args = [lat_min |-> None, lat_max |-> None, lon_min |-> None, lon_max |-> None,
             year |-> None, orbit |-> None, path |-> None]
  /\ downloads = <<>>
  /\ xpc = "idle"

\* the batch generator was not called before
NoFirstBatch ==
  /\ first_valid = <<>>
  /\ first_missing = <<>>

\* no result yet
NoResult == [name |-> 0, rc |-> 0, msg |-> "none"]
EmptyDisk == [merge |-> {}, unwrap |-> {}, links |-> {}, corr |-> {}]

\* unwrap_driver does not run
UnwrapIdle ==
  /\ uargs = [parallel |-> 1, force |-> FALSE, dry_run |-> FALSE,
              build_coh_mask |-> FALSE, mask |-> None]
  /\ ifgs = <<>>
  /\ disk0 = EmptyDisk
  /\ disk = EmptyDisk
  /\ fails = {}
  /\ cmd_found = TRUE
  /\ mask_path = None
  /\ jobs = <<>>
  /\ futs = <<>>
  /\ results = <<>>
  /\ commands = {}
  /\ report = [ok |-> 0, bad |-> 0]
  /\ upc = "idle"

\* select_s1_pairs_from_postgres_.py does not run after the function
ScriptIdle ==
  /\ s_path = 1
  /\ s_i = 1
  /\ s_j = 2
  /\ s_pairs = <<>>
  /\ s_kept = <<>>
  /\ spc = "idle"

\* processPairs.py does not run
CsvIdle ==
  /\ data = <<>>
  /\ config = [MINYEAR |-> None, MAXYEAR |-> None, MINFRAME |-> None, MAXFRAME |-> None]
  /\ file_list = <<>>
  /\ ipairs = {}
  /\ cpc = "idle"

ExtraIdle == DownloadIdle /\ NoFirstBatch /\ UnwrapIdle /\ ScriptIdle /\ CsvIdle

\* no pair script runs
PairsIdle ==
  /\ script = "none"
  /\ df = <<>>
  /\ bmax = 0
  /\ tmax = 0
  /\ pairs = <<>>
  /\ ppc = "idle"

\* no batch generator runs
BatchIdle ==
  /\ rscript = "none"
  /\ csv = <<>>
  /\ dry_run = FALSE
  /\ zips = [k \in ZipKeys |-> Unseen]
  /\ pairs_df = <<>>
  /\ row_i = 1
  /\ row_off = 0
  /\ counter = 0
  /\ valid = <<>>
  /\ missing = <<>>
  /\ xmls = {}
  /\ rpc = "idle"

InitTiles ==
  /\ impl \in Impls
  /\ area_bounds \in Regions \cup {ExampleRegion}
  /\ percentage \in Percentages
  /\ pc = "start"
  /\ lat = 0
  /\ lon = 0
  /\ tile_bounds = NoTile
  /\ tiles = <<>>
  /\ tile_id = FirstTileId
  /\ names = <<>>
  /\ run = 1
  /\ first_tiles = <<>>
  /\ granules = <<>>
  /\ bpc = "idle"
  /\ selected = {}
  /\ PairsIdle
  /\ BatchIdle
  /\ ExtraIdle

\* ASFDataDownloader.execute up to the call of generate_tiles: "if tile_percentage:"
Execute ==
  /\ pc = "start"
  /\ impl = "GeoTileMapper"
  /\ IF percentage # 0
       THEN /\ pc' = "outer"
            /\ lat' = area_bounds.min_lat
            /\ tiles' = StartTiles(tiles)
       ELSE /\ pc' = "download_all"
            /\ lat' = lat
            /\ tiles' = tiles
  /\ UNCHANGED <<impl, area_bounds, percentage, lon, tile_bounds, tile_id, names>>
  /\ UNCHANGED <<pvars, rvars, dvars, gvars, evars>>

\* area_tiler.main up to the walk of create_tiles: percentage = float(input(...)),
\* create_tiles(df, percentage)
Main ==
  /\ pc = "start"
  /\ impl = "area_tiler"
  /\ pc' = "outer"
  /\ lat' = area_bounds.min_lat
  /\ tiles' = StartTiles(tiles)
  /\ UNCHANGED <<impl, area_bounds, percentage, lon, tile_bounds, tile_id, names>>
  /\ UNCHANGED <<pvars, rvars, dvars, gvars, evars>>

\* "while lat < max_lat:" entered: lon = min_lon
OuterEnter ==
  /\ pc = "outer"
  /\ lat < area_bounds.max_lat
  /\ lon' = area_bounds.min_lon
  /\ pc' = "inner"
  /\ UNCHANGED <<impl, area_bounds, percentage, lat, tile_bounds, tiles, tile_id, names>>
  /\ UNCHANGED <<pvars, rvars, dvars, gvars, evars>>

\* "while lat < max_lat:" left: generate_tiles / create_tiles returns
OuterExit ==
  /\ pc = "outer"
  /\ ~(lat < area_bounds.max_lat)
  /\ pc' = IF impl = "GeoTileMapper" THEN "enumerate" ELSE "done"
  /\ UNCHANGED <<impl, area_bounds, percentage, lat, lon, tile_bounds, tiles, tile_id, names>>
  /\ UNCHANGED <<pvars, rvars, dvars, gvars, evars>>

\* one pass of "while lon < max_lon:" in generate_tiles
InnerStep ==
  /\ pc = "inner"
  /\ impl = "GeoTileMapper"
  /\ lon < area_bounds.max_lon
  /\ Len(tiles) < MaxTiles
  /\ tile_bounds' = TileBounds(area_bounds, percentage, lat, lon)
  /\ tiles' = Append(tiles, tile_bounds')
  /\ lon' = tile_bounds'.max_lon
  /\ UNCHANGED <<impl, area_bounds, percentage, pc, lat, tile_id, names>>
  /\ UNCHANGED <<pvars, rvars, dvars, gvars, evars>>

\* "while lon < max_lon:" left in generate_tiles: lat = tile_bounds['max_lat']
InnerExit ==
  /\ pc = "inner"
  /\ impl = "GeoTileMapper"
  /\ ~(lon < area_bounds.max_lon)
  /\ lat' = tile_bounds.max_lat
  /\ pc' = "outer"
  /\ UNCHANGED <<impl, area_bounds, percentage, lon, tile_bounds, tiles, tile_id, names>>
  /\ UNCHANGED <<pvars, rvars, dvars, gvars, evars>>

\* one pass of "while current_lon < max_lon:" in create_tiles
CreateInnerStep ==
  /\ pc = "inner"
  /\ impl = "area_tiler"
  /\ lon < area_bounds.max_lon
  /\ Len(tiles) < MaxTiles
  /\ tile_bounds' = TilePolygon(area_bounds, percentage, lat, lon)
  /\ tiles' = Append(tiles, tile_bounds')
  /\ names' = Append(names, tile_id)
  /\ tile_id' = NextTileId(tile_id)
  /\ lon' = UnclippedEdge(lon, area_bounds.min_lon, area_bounds.max_lon, percentage)
  /\ UNCHANGED <<impl, area_bounds, percentage, pc, lat>>
  /\ UNCHANGED <<pvars, rvars, dvars, gvars, evars>>

\* "while current_lon < max_lon:" left in create_tiles: current_lat += tile_height
CreateInnerExit ==
  /\ pc = "inner"
  /\ impl = "area_tiler"
  /\ ~(lon < area_bounds.max_lon)
  /\ lat' = UnclippedEdge(lat, area_bounds.min_lat, area_bounds.max_lat, percentage)
  /\ pc' = "outer"
  /\ UNCHANGED <<impl, area_bounds, percentage, lon, tile_bounds, tiles, tile_id, names>>
  /\ UNCHANGED <<pvars, rvars, dvars, gvars, evars>>

\* one pass of "for i, tile in enumerate(tiles, start=1):" in execute
EnumerateStep ==
  /\ pc = "enumerate"
  /\ Len(names) < Len(tiles)
  /\ names' = Append(names, tile_id)
  /\ tile_id' = NextTileId(tile_id)
  /\ UNCHANGED <<impl, area_bounds, percentage, pc, lat, lon, tile_bounds, tiles>>
  /\ UNCHANGED <<pvars, rvars, dvars, gvars, evars>>

\* the for loop of execute is exhausted
EnumerateExit ==
  /\ pc = "enumerate"
  /\ Len(names) = Len(tiles)
  /\ pc' = "done"
  /\ UNCHANGED <<impl, area_bounds, percentage, lat, lon, tile_bounds, tiles, tile_id, names>>
  /\ UNCHANGED <<pvars, rvars, dvars, gvars, evars>>

NextTiles ==
  \/ Execute
  \/ Main
  \/ OuterEnter
  \/ OuterExit
  \/ InnerStep
  \/ InnerExit
  \/ CreateInnerStep
  \/ CreateInnerExit
  \/ EnumerateStep
  \/ EnumerateExit

SpecTiles == InitTiles /\ [][NextTiles]_vars

\* the script is called a second time with the same region and percentage
Rerun ==
  /\ pc = "done"
  /\ run = 1
  /\ run' = 2
  /\ first_tiles' = tiles
  /\ pc' = "start"
  /\ lat' = 0
  /\ lon' = 0
  /\ tile_bounds' = NoTile
  /\ tile_id' = FirstTileId
  /\ names' = <<>>
  /\ UNCHANGED <<impl, area_bounds, percentage, tiles>>
  /\ UNCHANGED <<pvars, rvars, gvars, evars>>

NextTilesTwice == NextTiles \/ Rerun

SpecTilesTwice == InitTiles /\ [][NextTilesTwice]_vars

\* -------------------------------------------------------------- pair selection
\* df['path_number'].unique(): the paths in order of first appearance
RECURSIVE UniqueFrom(_, _, _)
UniqueFrom(rows, k, seen) ==
  IF k > Len(rows) THEN <<>>
  ELSE IF rows[k].path_number \in seen THEN UniqueFrom(rows, k + 1, seen)
  ELSE <<rows[k].path_number>>
         \o UniqueFrom(rows, k + 1, seen \cup {rows[k].path_number})
UniquePaths(rows) == UniqueFrom(rows, 1, {})

\* df[df['path_number'] == path].reset_index(drop=True)
PathRows(rows, path) == SelectSeq(rows, LAMBDA r : r.path_number = path)

\* for i in range(n): for j in range(i + 1, n): the index pairs in loop order
RECURSIVE PairLoop(_, _, _)
PairLoop(n, i, j) ==
  IF i > n THEN <<>>
  ELSE IF j > n THEN PairLoop(n, i + 1, i + 2)
  ELSE <<<<i, j>>>> \o PairLoop(n, i, j + 1)
IndexPairs(n) == PairLoop(n, 1, 2)

\* delta_t = abs((date2 - date1).days)
DeltaT(r1, r2) == Abs(r2.acquisition_date - r1.acquisition_date)
\* b_perp = abs(orbit_j - orbit_i); nan if either orbit is
BPerp(r1, r2) == IF NaN \in {r1.orbit, r2.orbit} THEN NaN ELSE Abs(r2.orbit - r1.orbit)
\* x <= y of two floats: false if either is nan
Leq(x, y) == x # NaN /\ y # NaN /\ x <= y
\* mutants of Retained: the baseline test left out; strict comparisons; the
\* temporal test left out
RetainedNoBaseline(r1, r2, b, t) == DeltaT(r1, r2) <= t
RetainedStrict(r1, r2, b, t) == DeltaT(r1, r2) < t /\ BPerp(r1, r2) < b
RetainedNoTemporal(r1, r2, b, t) == Leq(BPerp(r1, r2), b)
\* mutant of Retained: the temporal comparison is turned around
RetainedAtLeast(r1, r2, b, t) == DeltaT(r1, r2) >= t /\ Leq(BPerp(r1, r2), b)
\* "if delta_t <= tmax:" and "if b_perp <= bmax:"
Retained(r1, r2, b, t) == DeltaT(r1, r2) <= t /\ Leq(BPerp(r1, r2), b)

\* date.strftime('%Y%m%d') for day d (0 = 1 January) of 2020
MonthStart == <<0, 31, 60, 91, 121, 152, 182, 213, 244, 274, 305, 335, 366>>
MonthOf(d) == CHOOSE m \in 1..12 : MonthStart[m] <= d /\ d < MonthStart[m + 1]
Strftime(d) == 20200000 + 100 * MonthOf(d) + (d - MonthStart[MonthOf(d)] + 1)

\* the rows (i, j) of one path that pass both tests, in loop order
RetainedOfPath(rows, path, b, t) ==
  LET ip == SelectSeq(IndexPairs(Len(rows)),
                      LAMBDA ij : Retained(rows[ij[1]], rows[ij[2]], b, t))
  IN  [k \in 1..Len(ip) |-> [r1 |-> rows[ip[k][1]], r2 |-> rows[ip[k][2]], path |-> path]]

\* "for path in df['path_number'].unique():" from the k-th path on
RECURSIVE RetainedFrom(_, _, _, _, _)
RetainedFrom(rows, ps, k, b, t) ==
  IF k > Len(ps) THEN <<>>
  ELSE RetainedOfPath(PathRows(rows, ps[k]), ps[k], b, t)
         \o RetainedFrom(rows, ps, k + 1, b, t)
RetainedPairs(rows, b, t) == RetainedFrom(rows, UniquePaths(rows), 1, b, t)

\* mutant of PairDict: master and slave are taken from the wrong rows
PairDictSwapped(r1, r2, path) ==
  [master |-> r2.granule_name, slave |-> r1.granule_name, path |-> path,
   Bperp |-> BPerp(r1, r2), delta_days |-> DeltaT(r1, r2)]
\* the dict appended by select_s1_pairs_from_db
PairDict(r1, r2, path) ==
  [master |-> r1.granule_name, slave |-> r2.granule_name, path |-> path,
   Bperp |-> BPerp(r1, r2), delta_days |-> DeltaT(r1, r2)]
\* the list appended by the script select_s1_pairs_from_postgres_
PairDates(r1, r2) ==
  [Date1 |-> Strftime(r1.acquisition_date), Date2 |-> Strftime(r2.acquisition_date),
   Bperp |-> BPerp(r1, r2), DeltaT |-> DeltaT(r1, r2)]
\* the tuple appended by initialPairs.getInitPairs
PairNames(r1, r2) == <<r1.granule_name, r2.granule_name>>

\* select_s1_pairs_from_db(db_name, table_name, bmax, tmax) on the rows read
SelectS1PairsFromDb(rows, b, t) ==
  LET rp == RetainedPairs(rows, b, t)
  IN  [k \in 1..Len(rp) |-> PairDict(rp[k].r1, rp[k].r2, rp[k].path)]
\* the module-level loop of select_s1_pairs_from_postgres_.py
SelectS1PairsScript(rows, b, t) ==
  LET rp == RetainedPairs(rows, b, t)
  IN  [k \in 1..Len(rp) |-> PairDates(rp[k].r1, rp[k].r2)]

\* initialPairs.getInitPairs(fileList, temporalBaselineMax): "if abs(time_diff) <= ..."
InitRetained(r1, r2, t) == Abs(r2.acquisition_date - r1.acquisition_date) <= t
GetInitPairs(fileList, t) ==
  LET ip == SelectSeq(IndexPairs(Len(fileList)),
                      LAMBDA ij : InitRetained(fileList[ij[1]], fileList[ij[2]], t))
  IN  [k \in 1..Len(ip) |-> PairNames(fileList[ip[k][1]], fileList[ip[k][2]])]

\* no tiling script runs
TilesOnlyIdle ==
  /\ impl = "none"
  /\ area_bounds = [min_lat |-> 0, max_lat |-> 0, min_lon |-> 0, max_lon |-> 0]
  /\ percentage = 0
  /\ pc = "idle"
  /\ lat = 0
  /\ lon = 0
  /\ tile_bounds = NoTile
  /\ tiles = <<>>
  /\ tile_id = FirstTileId
  /\ names = <<>>
  /\ run = 1
  /\ first_tiles = <<>>
  /\ granules = <<>>
  /\ bpc = "idle"
  /\ selected = {}

TilesIdle ==
  /\ TilesOnlyIdle
  /\ ExtraIdle

InitPairs ==
  /\ script \in PairScripts
  /\ \/ /\ df \in Tables
        /\ bmax \in (IF script = "initialPairs" THEN {0} ELSE Thresholds)
        /\ tmax \in Thresholds
     \/ /\ df = ExampleTable
        /\ bmax = 50
        /\ tmax = 20
  /\ pairs = <<>>
  /\ ppc = "start"
  /\ TilesIdle
  /\ BatchIdle

\* every orbit read is NULL, so the column holds None and not numbers, and
\* the loop comes to "b_perp = abs(... - ...)" for some pair: None - None
OrbitTypeError(rows, t) ==
  /\ \A k \in 1..Len(rows) : rows[k].orbit = NaN
  /\ \E i, j \in 1..Len(rows) :
       /\ i < j
       /\ rows[i].path_number = rows[j].path_number
       /\ DeltaT(rows[i], rows[j]) <= t

\* select_s1_pairs_from_postgres.py: select_s1_pairs_from_db runs to its return
SelectFromDb ==
  /\ ppc = "start"
  /\ script = "select_s1_pairs_from_postgres"
  /\ ~OrbitTypeError(df, tmax)
  /\ pairs' = SelectS1PairsFromDb(df, bmax, tmax)
  /\ ppc' = "done"
  /\ UNCHANGED <<script, df, bmax, tmax>>
  /\ UNCHANGED <<tvars, rvars, dvars, gvars, evars>>

\* select_s1_pairs_from_postgres_.py: the pair loop runs to its end
SelectScript ==
  /\ ppc = "start"
  /\ script = "select_s1_pairs_from_postgres_"
  /\ pairs' = SelectS1PairsScript(df, bmax, tmax)
  /\ ppc' = "done"
  /\ UNCHANGED <<script, df, bmax, tmax>>
  /\ UNCHANGED <<tvars, rvars, dvars, gvars, evars>>

\* initialPairs.py: getInitPairs(fileList, temporalBaselineMax) returns
InitialPairs ==
  /\ ppc = "start"
  /\ script = "initialPairs"
  /\ pairs' = GetInitPairs(df, tmax)
  /\ ppc' = "done"
  /\ UNCHANGED <<script, df, bmax, tmax>>
  /\ UNCHANGED <<tvars, rvars, dvars, gvars, evars>>

NextPairs ==
  \/ SelectFromDb
  \/ SelectScript
  \/ InitialPairs

SpecPairs == InitPairs /\ [][NextPairs]_vars

\* ------------------------------------------------- processPairs.py
\* the file names of the CSV, in the order of their strings: the names of one
\* satellite, which sort by acquisition time
Files == 1..MaxFiles
\* int(x[17:21]): the year in the name of file f
YearOf(f) == 2019 + (f \div 2)

\* np.unique: the distinct values in ascending order
RECURSIVE Unique(_)
Unique(S) ==
  IF S = {} THEN <<>>
  ELSE LET least == CHOOSE x \in S : \A y \in S : x <= y
       IN  <<least>> \o Unique(S \ {least})

\* masterList = data[:,0] and slaveList = data[:,2]
MasterList(rows) == [k \in 1..Len(rows) |-> rows[k][1]]
SlaveList(rows) == [k \in 1..Len(rows) |-> rows[k][2]]

\* yearFilter(fileList, minYear, maxYear): skipped unless both are int
YearFilter(fl, minYear, maxYear) ==
  IF minYear = None \/ maxYear = None THEN fl
  ELSE SelectSeq(fl, LAMBDA x : \E lo \in minYear, hi \in maxYear :
                                 lo <= YearOf(x) /\ YearOf(x) < hi)

\* np.where(fileList == name)[0]: the positions of name in fileList
Where(fl, name) == { k \in 1..Len(fl) : fl[k] = name }
Least(S) == CHOOSE x \in S : \A y \in S : x <= y

\* tempPair = (firstPair[0], secondPair[0]) if firstPair[0] < secondPair[0]
\*            else (secondPair[0], firstPair[0])
TempPair(first, second) ==
  IF first < second THEN <<first, second>> ELSE <<second, first>>

\* getInitPairs(fileList, masterList, slaveList) from row i on; positions are
\* counted from 1
RECURSIVE InitPairsFrom(_, _, _, _)
InitPairsFrom(fl, masterList, slaveList, i) ==
  IF i > Len(masterList) THEN {}
  ELSE LET firstPair == Where(fl, masterList[i])
           secondPair == Where(fl, slaveList[i])
       IN  (IF firstPair # {} /\ secondPair # {}
              THEN {TempPair(Least(firstPair), Least(secondPair))}
              ELSE {})
             \cup InitPairsFrom(fl, masterList, slaveList, i + 1)
getInitPairs(fl, masterList, slaveList) == InitPairsFrom(fl, masterList, slaveList, 1)

\* the year and frame ranges of the configuration module
YearRanges == {<<None, None>>, <<{2019}, {2020}>>, <<{2020}, {2021}>>, <<{2019}, {2021}>>}
FrameRanges == {<<None, None>>, <<{100}, {200}>>}

InitCsv ==
  /\ \E n \in 0..(MaxCsvRows + 1) : data \in [1..n -> Files \X Files]
  /\ \E y \in YearRanges, f \in FrameRanges :
       config = [MINYEAR |-> y[1], MAXYEAR |-> y[2], MINFRAME |-> f[1], MAXFRAME |-> f[2]]
  /\ file_list = <<>>
  /\ ipairs = {}
  /\ cpc = "start"
  /\ TilesOnlyIdle
  /\ PairsIdle
  /\ BatchIdle
  /\ DownloadIdle
  /\ NoFirstBatch
  /\ UnwrapIdle
  /\ ScriptIdle

\* np.loadtxt gives a two-dimensional array for two rows or more, and
\* data[:,0] raises IndexError for fewer; fileList = np.unique(...); yearFilter
LoadCsv ==
  /\ cpc = "start"
  /\ IF Len(data) < 2
       THEN /\ cpc' = "IndexError"
            /\ UNCHANGED file_list
       ELSE /\ file_list' =
                 YearFilter(Unique({ data[k][1] : k \in 1..Len(data) }
                                     \cup { data[k][2] : k \in 1..Len(data) }),
                            config.MINYEAR, config.MAXYEAR)
            /\ cpc' = "frames"
  /\ UNCHANGED <<data, config, ipairs>>
  /\ UNCHANGED <<tvars, pvars, rvars, dvars, gvars, crest>>

\* frameFilter: skipped unless both frames are int, and then getFrame reads
\* the name asf, which the script does not import
FrameFilter ==
  /\ cpc = "frames"
  /\ cpc' = IF config.MINFRAME # None /\ config.MAXFRAME # None
              THEN "NameError" ELSE "pairs"
  /\ UNCHANGED <<data, config, file_list, ipairs>>
  /\ UNCHANGED <<tvars, pvars, rvars, dvars, gvars, crest>>

\* pairs = getInitPairs(fileList, masterList, slaveList)
CallGetInitPairs ==
  /\ cpc = "pairs"
  /\ ipairs' = getInitPairs(file_list, MasterList(data), SlaveList(data))
  /\ cpc' = "done"
  /\ UNCHANGED <<data, config, file_list>>
  /\ UNCHANGED <<tvars, pvars, rvars, dvars, gvars, crest>>

NextCsv ==
  \/ LoadCsv
  \/ FrameFilter
  \/ CallGetInitPairs

SpecCsv == InitCsv /\ [][NextCsv]_vars

\* ------------------------------- the script run on the table of the function
\* mutant of ScriptKeeps: the comparisons are strict
ScriptKeepsStrict(date1, date2, orbit_i, orbit_j, b, t) ==
  Abs(date2 - date1) < t /\ Abs(orbit_j - orbit_i) < b
\* select_s1_pairs_from_postgres_.py: "if delta_t <= args.tmax:" and
\* "if b_perp <= args.bmax:"
ScriptKeeps(date1, date2, orbit_i, orbit_j, b, t) ==
  Abs(date2 - date1) <= t /\ Leq(Abs(orbit_j - orbit_i), b)

\* df_path of the s_path-th unique path
ScriptDfPath == PathRows(df, UniquePaths(df)[s_path])

InitPairsBoth ==
  /\ script = "select_s1_pairs_from_postgres"
  /\ \/ /\ df \in Tables
        /\ bmax \in Thresholds
        /\ tmax \in Thresholds
     \/ /\ df = ExampleTable
        /\ bmax = 50
        /\ tmax = 20
  /\ pairs = <<>>
  /\ ppc = "start"
  /\ s_path = 1
  /\ s_i = 1
  /\ s_j = 2
  /\ s_pairs = <<>>
  /\ s_kept = <<>>
  /\ spc = "start"
  /\ TilesOnlyIdle
  /\ BatchIdle
  /\ DownloadIdle
  /\ NoFirstBatch
  /\ UnwrapIdle
  /\ CsvIdle

\* the script is run with the same arguments when the function has returned:
\* the same query, "pairs = []"
ScriptStart ==
  /\ spc = "start"
  /\ ppc = "done"
  /\ s_pairs' = <<>>
  /\ s_kept' = <<>>
  /\ s_path' = 1
  /\ spc' = "paths"
  /\ UNCHANGED <<s_i, s_j>>
  /\ UNCHANGED <<tvars, pvars, rvars, dvars, gvars, srest>>

\* "for path in df['path_number'].unique():" takes the next path
ScriptPathEnter ==
  /\ spc = "paths"
  /\ s_path <= Len(UniquePaths(df))
  /\ s_i' = 1
  /\ s_j' = 2
  /\ spc' = "rows"
  /\ UNCHANGED <<s_path, s_pairs, s_kept>>
  /\ UNCHANGED <<tvars, pvars, rvars, dvars, gvars, srest>>

\* the loop over the paths is exhausted
ScriptPathsDone ==
  /\ spc = "paths"
  /\ s_path > Len(UniquePaths(df))
  /\ spc' = "done"
  /\ UNCHANGED <<s_path, s_i, s_j, s_pairs, s_kept>>
  /\ UNCHANGED <<tvars, pvars, rvars, dvars, gvars, srest>>

\* one pass of "for j in range(i + 1, len(df_path)):"
ScriptPairTest ==
  /\ spc = "rows"
  /\ s_i <= Len(ScriptDfPath)
  /\ s_j <= Len(ScriptDfPath)
  /\ LET ri == ScriptDfPath[s_i]
         rj == ScriptDfPath[s_j]
         date1 == ri.acquisition_date
         date2 == rj.acquisition_date
     IN  IF ScriptKeeps(date1, date2, ri.orbit, rj.orbit, bmax, tmax)
           THEN /\ s_pairs' = Append(s_pairs,
                       [Date1 |-> Strftime(date1), Date2 |-> Strftime(date2),
                        Bperp |-> Abs(rj.orbit - ri.orbit),
                        DeltaT |-> Abs(date2 - date1)])
                /\ s_kept' = Append(s_kept,
                       <<ri.path_number, ri.granule_name, rj.granule_name>>)
           ELSE UNCHANGED <<s_pairs, s_kept>>
  /\ s_j' = s_j + 1
  /\ UNCHANGED <<s_path, s_i, spc>>
  /\ UNCHANGED <<tvars, pvars, rvars, dvars, gvars, srest>>

\* the loop over j is exhausted: the next i
ScriptRowNext ==
  /\ spc = "rows"
  /\ s_i <= Len(ScriptDfPath)
  /\ s_j > Len(ScriptDfPath)
  /\ s_i' = s_i + 1
  /\ s_j' = s_i + 2
  /\ UNCHANGED <<s_path, s_pairs, s_kept, spc>>
  /\ UNCHANGED <<tvars, pvars, rvars, dvars, gvars, srest>>

\* the loop over i is exhausted: the next path
ScriptRowsDone ==
  /\ spc = "rows"
  /\ s_i > Len(ScriptDfPath)
  /\ s_path' = s_path + 1
  /\ spc' = "paths"
  /\ UNCHANGED <<s_i, s_j, s_pairs, s_kept>>
  /\ UNCHANGED <<tvars, pvars, rvars, dvars, gvars, srest>>

NextPairsBoth ==
  \/ SelectFromDb
  \/ ScriptStart
  \/ ScriptPathEnter
  \/ ScriptPathsDone
  \/ ScriptPairTest
  \/ ScriptRowNext
  \/ ScriptRowsDone

SpecPairsBoth == InitPairsBoth /\ [][NextPairsBoth]_vars

\* select_s1_pairs_from_db on a table of MaxRows + 1 rows of one orbit value:
\* rows enough for pairs on both paths
OrderTables(n) == TablesOver({ v \in RowValues : v.orbit = 0 }, n)

InitPairsOrder ==
  /\ script = "select_s1_pairs_from_postgres"
  /\ df \in OrderTables(MaxRows + 1)
  /\ bmax \in Thresholds
  /\ tmax \in Thresholds
  /\ pairs = <<>>
  /\ ppc = "start"
  /\ TilesIdle
  /\ BatchIdle

NextPairsOrder == SelectFromDb

SpecPairsOrder == InitPairsOrder /\ [][NextPairsOrder]_vars

\* select_s1_pairs_from_db on a table with granules whose orbit is NULL
MissingTables(m) ==
  { t \in UNION { TablesOver({ v \in [acquisition_date : Dates, path_number : Paths,
                                       orbit : Orbits \cup {NaN}] : TRUE }, n) :
                  n \in 1..m } :
      \E k \in 1..Len(t) : t[k].orbit = NaN }

\* the function returns the pairs and nothing else: it keeps no list of the
\* granules it left out
skipped == {}
\* nor a list of the path partitions it gave up on
path_errors == {}

InitPairsMissing ==
  /\ script = "select_s1_pairs_from_postgres"
  /\ df \in MissingTables(MaxRows)
  /\ bmax \in Thresholds
  /\ tmax \in Thresholds
  /\ pairs = <<>>
  /\ ppc = "start"
  /\ TilesIdle
  /\ BatchIdle

\* select_s1_pairs_from_db fails with TypeError and returns nothing
SelectFromDbRaises ==
  /\ ppc = "start"
  /\ script = "select_s1_pairs_from_postgres"
  /\ OrbitTypeError(df, tmax)
  /\ ppc' = "TypeError"
  /\ UNCHANGED <<script, df, bmax, tmax, pairs>>
  /\ UNCHANGED <<tvars, rvars, dvars, gvars, evars>>

NextPairsMissing ==
  \/ SelectFromDb
  \/ SelectFromDbRaises

SpecPairsMissing == InitPairsMissing /\ [][NextPairsMissing]_vars

\* ------------------------------------------------------------ reconciliation
\* a list of rows as runs of one row each
ToRuns(rows) == [k \in 1..Len(rows) |-> [row |-> rows[k], n |-> 1]]
\* list.append(row)
AppendRow(runs, r) ==
  IF Len(runs) > 0 /\ runs[Len(runs)].row = r
    THEN [runs EXCEPT ![Len(runs)].n = @ + 1]
    ELSE Append(runs, [row |-> r, n |-> 1])
\* how many rows of the list equal r
RECURSIVE CountFrom(_, _, _)
CountFrom(runs, r, k) ==
  IF k > Len(runs) THEN 0
  ELSE (IF runs[k].row = r THEN runs[k].n ELSE 0) + CountFrom(runs, r, k + 1)
Count(runs, r) == CountFrom(runs, r, 1)
RowsOf(runs) == { runs[k].row : k \in 1..Len(runs) }

\* list(path_dir.glob(f'*{g}*.zip')): the number of files it finds; a directory
\* is listed when a pattern is first matched in it and does not change afterwards
Glob(z, path, g) == IF z[<<path, g>>] = Unseen THEN 0..MaxCandidates ELSE {z[<<path, g>>]}

\* "if ref_zip and sec_zip:"
BothFound(nref, nsec) == nref > 0 /\ nsec > 0

\* the file generate_topsApp_xml writes: named by the pair, holding the first
\* file of each glob result (files are numbered in the order glob lists them)
TopsAppXml(r) ==
  [name |-> <<r.master, r.slave>>, dir |-> r.path, reference_zip |-> 1, secondary_zip |-> 1]

\* mutant of WritesXml: the file is written whatever --dry_run says
WritesXmlAlways(dry) == TRUE
\* "if args.dry_run: print(...) else: generate_topsApp_xml(...)"
WritesXml(dry) == ~dry

\* path_str = str(row['path'])
Str(n) == ToString(n)

\* the row a generator keeps: the whole row (generate_topsApp_batch), or
\* [master, slave, path_str] (generate_topsApp_batch_)
KeptRow(gen, r) ==
  IF gen = "generate_topsApp_batch_"
    THEN [master |-> r.master, slave |-> r.slave, path |-> Str(r.path)]
    ELSE r

\* the generators keep no third list beside valid and missing
ambiguous == <<>>

InitBatch(files) ==
  /\ rscript \in BatchScripts
  /\ dry_run \in BOOLEAN
  /\ IF rscript = "generate_topsApp_batch"
       THEN /\ df \in Tables
            /\ bmax \in Thresholds
            /\ tmax \in Thresholds
            /\ csv = <<>>
       ELSE /\ df = <<>>
            /\ bmax = 0
            /\ tmax = 0
            /\ csv \in files
  /\ script = "none"
  /\ pairs = <<>>
  /\ ppc = "idle"
  /\ zips = [k \in ZipKeys |-> Unseen]
  /\ pairs_df = <<>>
  /\ row_i = 1
  /\ row_off = 0
  /\ counter = 0
  /\ valid = <<>>
  /\ missing = <<>>
  /\ xmls = {}
  /\ rpc = "start"
  /\ TilesIdle

InitReconcile == InitBatch(CsvFiles)

\* generate_topsApp_batch.main: pairs_df = select_s1_pairs_from_db(...)
BatchSelect ==
  /\ rpc = "start"
  /\ rscript = "generate_topsApp_batch"
  /\ pairs' = SelectS1PairsFromDb(df, bmax, tmax)
  /\ pairs_df' = ToRuns(pairs')
  /\ rpc' = "loop"
  /\ UNCHANGED <<script, df, bmax, tmax, ppc>>
  /\ UNCHANGED <<rscript, csv, dry_run, zips, row_i, row_off, counter, valid, missing, xmls>>
  /\ UNCHANGED <<tvars, dvars, gvars, evars>>

\* generate_topsApp_batch_.main: df = pd.read_csv(args.pairs)
BatchReadCsv ==
  /\ rpc = "start"
  /\ rscript = "generate_topsApp_batch_"
  /\ pairs_df' = csv
  /\ rpc' = "loop"
  /\ UNCHANGED <<rscript, csv, dry_run, zips, row_i, row_off, counter, valid, missing, xmls>>
  /\ UNCHANGED <<tvars, pvars, dvars, gvars, evars>>

\* one pass of "for _, row in df.iterrows():" of either generator
RowStep ==
  /\ rpc = "loop"
  /\ row_i <= Len(pairs_df)
  /\ IF rscript = "generate_topsApp_batch_" /\ counter >= COUNTER_CAP
       THEN /\ rpc' = "save"
            /\ UNCHANGED <<zips, row_i, row_off, counter, valid, missing, xmls>>
       ELSE LET row == pairs_df[row_i].row
                last == row_off + 1 = pairs_df[row_i].n
            IN  \E nref \in Glob(zips, row.path, row.master) :
                  LET z1 == [zips EXCEPT ![<<row.path, row.master>>] = nref]
                  IN  \E nsec \in Glob(z1, row.path, row.slave) :
                        /\ zips' = [z1 EXCEPT ![<<row.path, row.slave>>] = nsec]
                        /\ counter' = IF rscript = "generate_topsApp_batch_"
                                        THEN counter + 1 ELSE counter
                        /\ IF BothFound(nref, nsec)
                             THEN /\ xmls' = IF WritesXml(dry_run)
                                               THEN xmls \cup {TopsAppXml(row)}
                                               ELSE xmls
                                  /\ valid' = AppendRow(valid, KeptRow(rscript, row))
                                  /\ missing' = missing
                             ELSE /\ missing' = AppendRow(missing, KeptRow(rscript, row))
                                  /\ UNCHANGED <<valid, xmls>>
                        /\ row_i' = IF last THEN row_i + 1 ELSE row_i
                        /\ row_off' = IF last THEN 0 ELSE row_off + 1
                        /\ rpc' = rpc
  /\ UNCHANGED <<rscript, csv, dry_run, pairs_df>>
  /\ UNCHANGED <<tvars, pvars, dvars, gvars, evars>>

\* a pass of the loop in which glob raises OSError (an I/O error, a path name
\* too long): nothing catches it and main ends without writing the CSV files
RowRaises ==
  /\ rpc = "loop"
  /\ row_i <= Len(pairs_df)
  /\ ~(rscript = "generate_topsApp_batch_" /\ counter >= COUNTER_CAP)
  /\ counter' = IF rscript = "generate_topsApp_batch_" THEN counter + 1 ELSE counter
  /\ rpc' = "OSError"
  /\ UNCHANGED <<rscript, csv, dry_run, zips, pairs_df, row_i, row_off, valid,
                 missing, xmls>>
  /\ UNCHANGED <<tvars, pvars, dvars, gvars, evars>>

\* the loop is exhausted
RowsDone ==
  /\ rpc = "loop"
  /\ row_i > Len(pairs_df)
  /\ rpc' = "save"
  /\ UNCHANGED <<rscript, csv, dry_run, zips, pairs_df, row_i, row_off, counter, valid,
                 missing, xmls>>
  /\ UNCHANGED <<tvars, pvars, dvars, gvars, evars>>

\* valid_pairs.csv and missing_pairs.csv are written
SaveCsv ==
  /\ rpc = "save"
  /\ rpc' = "done"
  /\ UNCHANGED <<rscript, csv, dry_run, zips, pairs_df, row_i, row_off, counter, valid,
                 missing, xmls>>
  /\ UNCHANGED <<tvars, pvars, dvars, gvars, evars>>

NextReconcile ==
  \/ BatchSelect
  \/ BatchReadCsv
  \/ RowStep
  \/ RowRaises
  \/ RowsDone
  \/ SaveCsv

SpecReconcile == InitReconcile /\ [][NextReconcile]_vars

\* the generator is called with --dry_run and, when it has ended, again
\* without --dry_run on the same rows and the same directories
InitReconcileDry ==
  /\ InitReconcile
  /\ dry_run = TRUE
  /\ Len(df) <= MaxDryRows + 1
  /\ Len(csv) <= MaxDryRows

Rebatch ==
  /\ rpc = "done"
  /\ run = 1
  /\ run' = 2
  /\ first_valid' = valid
  /\ first_missing' = missing
  /\ dry_run' = FALSE
  /\ pairs_df' = <<>>
  /\ row_i' = 1
  /\ row_off' = 0
  /\ counter' = 0
  /\ valid' = <<>>
  /\ missing' = <<>>
  /\ rpc' = "start"
  /\ UNCHANGED <<rscript, csv, zips, xmls, first_tiles>>
  /\ UNCHANGED <<tvars, pvars, gvars, xvars, uvars, svars, cvars>>

NextReconcileDry == NextReconcile \/ Rebatch

SpecReconcileDry == InitReconcileDry /\ [][NextReconcileDry]_vars

\* generate_topsApp_batch_.py on a --pairs file longer than COUNTER_CAP rows
InitReconcileCap ==
  /\ InitBatch(LongCsvFiles)
  /\ rscript = "generate_topsApp_batch_"

NextReconcileCap ==
  \/ BatchReadCsv
  \/ RowStep
  \/ SaveCsv

SpecReconcileCap == InitReconcileCap /\ [][NextReconcileCap]_vars

\* ------------------------------------------------- bounds and tile membership
\* a row of the granule CSV: the four corners of the footprint
CornerCoords == 0..MaxCorner
Footprints ==
  [Near_Start_Lat : CornerCoords, Near_Start_Lon : CornerCoords,
   Far_Start_Lat : CornerCoords, Far_Start_Lon : CornerCoords,
   Near_End_Lat : CornerCoords, Near_End_Lon : CornerCoords,
   Far_End_Lat : CornerCoords, Far_End_Lon : CornerCoords]
\* the tile bounds handed to select_granules_for_tile
TileBoxes ==
  { t \in [min_lat : CornerCoords, max_lat : CornerCoords,
           min_lon : CornerCoords, max_lon : CornerCoords] :
      t.min_lat <= t.max_lat /\ t.min_lon <= t.max_lon }

\* Series.min() / Series.max()
MinOf(S) == IF S = {} THEN NaN ELSE CHOOSE x \in S : \A y \in S : x <= y
MaxOf(S) == IF S = {} THEN NaN ELSE CHOOSE x \in S : \A y \in S : x >= y
\* granules['<col>']
Column(rows, col) == { rows[k][col] : k \in 1..Len(rows) }

\* GeoTileMapper.calculate_area_bounds
CalculateAreaBounds(rows) ==
  [min_lat |-> MinOf(Column(rows, "Near_Start_Lat")),
   max_lat |-> MaxOf(Column(rows, "Far_End_Lat")),
   min_lon |-> MinOf(Column(rows, "Near_Start_Lon")),
   max_lon |-> MaxOf(Column(rows, "Far_End_Lon"))]

\* area_tiler.compute_bounding_area: all_points, latitudes and longitudes
AllLats(rows) ==
  Column(rows, "Near_Start_Lat") \cup Column(rows, "Far_Start_Lat")
    \cup Column(rows, "Near_End_Lat") \cup Column(rows, "Far_End_Lat")
AllLons(rows) ==
  Column(rows, "Near_Start_Lon") \cup Column(rows, "Far_Start_Lon")
    \cup Column(rows, "Near_End_Lon") \cup Column(rows, "Far_End_Lon")
\* the bounds of the convex hull of all_points
ComputeBoundingArea(rows) ==
  [min_lat |-> MinOf(AllLats(rows)), max_lat |-> MaxOf(AllLats(rows)),
   min_lon |-> MinOf(AllLons(rows)), max_lon |-> MaxOf(AllLons(rows))]

\* the row mask of GeoTileMapper.select_granules_for_tile
InTileMask(g, t) ==
  /\ g.Near_Start_Lat >= t.min_lat
  /\ g.Far_End_Lat <= t.max_lat
  /\ g.Near_Start_Lon >= t.min_lon
  /\ g.Far_End_Lon <= t.max_lon
SelectGranulesForTile(rows, t) == { k \in 1..Len(rows) : InTileMask(rows[k], t) }

InitBounds ==
  /\ impl \in Impls
  /\ \E n \in 0..MaxGranules : granules \in [1..n -> Footprints]
  /\ bpc = "start"
  /\ selected = {}
  /\ area_bounds = [min_lat |-> 0, max_lat |-> 0, min_lon |-> 0, max_lon |-> 0]
  /\ percentage = 0
  /\ pc = "idle"
  /\ lat = 0
  /\ lon = 0
  /\ tile_bounds = NoTile
  /\ tiles = <<>>
  /\ tile_id = FirstTileId
  /\ names = <<>>
  /\ run = 1
  /\ first_tiles = <<>>
  /\ PairsIdle
  /\ BatchIdle
  /\ ExtraIdle

\* execute: area_bounds = calculate_area_bounds(self.granules)
CalcAreaBounds ==
  /\ bpc = "start"
  /\ impl = "GeoTileMapper"
  /\ area_bounds' = CalculateAreaBounds(granules)
  /\ bpc' = "returned"
  /\ UNCHANGED <<impl, percentage, pc, lat, lon, tile_bounds, tiles, tile_id, names>>
  /\ UNCHANGED <<granules, selected>>
  /\ UNCHANGED <<pvars, rvars, dvars, evars>>

\* create_tiles: min_lat, min_lon, max_lat, max_lon = compute_bounding_area(df).
\* For no rows, bounds of the empty hull is () and the unpacking raises
\* ValueError, or is four nan, by the version of shapely.
CalcBoundingArea ==
  /\ bpc = "start"
  /\ impl = "area_tiler"
  /\ \/ /\ area_bounds' = ComputeBoundingArea(granules)
        /\ bpc' = "returned"
     \/ /\ granules = <<>>
        /\ area_bounds' = area_bounds
        /\ bpc' = "ValueError"
  /\ UNCHANGED <<impl, percentage, pc, lat, lon, tile_bounds, tiles, tile_id, names>>
  /\ UNCHANGED <<granules, selected>>
  /\ UNCHANGED <<pvars, rvars, dvars, evars>>

\* execute: tile_granules = select_granules_for_tile(self.granules, tile)
SelectForTile ==
  /\ bpc = "returned"
  /\ impl = "GeoTileMapper"
  /\ \E t \in TileBoxes :
       /\ tile_bounds' = t
       /\ selected' = SelectGranulesForTile(granules, t)
  /\ bpc' = "selected"
  /\ UNCHANGED <<impl, area_bounds, percentage, pc, lat, lon, tiles, tile_id, names>>
  /\ UNCHANGED granules
  /\ UNCHANGED <<pvars, rvars, dvars, evars>>

NextBounds ==
  \/ CalcAreaBounds
  \/ CalcBoundingArea
  \/ SelectForTile

SpecBounds == InitBounds /\ [][NextBounds]_vars

\* ------------------------------------------- execute run on a granule CSV
\* a row of self.granules: the footprint corners of a rectangle between
\* near start and far end, the acquisition year, the orbit direction and
\* the path number
GranuleRow(ns_lat, ns_lon, fe_lat, fe_lon, y, o, p) ==
  [Near_Start_Lat |-> ns_lat, Near_Start_Lon |-> ns_lon,
   Far_Start_Lat |-> ns_lat, Far_Start_Lon |-> fe_lon,
   Near_End_Lat |-> fe_lat, Near_End_Lon |-> ns_lon,
   Far_End_Lat |-> fe_lat, Far_End_Lon |-> fe_lon,
   Acquisition_Year |-> y, Ascending_or_Descending |-> o, Path_Number |-> p]

GridCorners == { GridPerUnit * k : k \in CornerCoords }
OrbitChoices == {"ASCENDING", "DESCENDING"}
GranuleRows ==
  { GranuleRow(a, b, c, d, y, o, p) :
      a \in GridCorners, b \in GridCorners, c \in GridCorners, d \in GridCorners,
      y \in {2020, 2021}, o \in OrbitChoices, p \in Paths }

NoArgs ==
  [lat_min |-> None, lat_max |-> None, lon_min |-> None, lon_max |-> None,
   year |-> None, orbit |-> None, path |-> None]
\* --lat_min --lat_max --lon_min --lon_max, all four given
BoundsArgs(lo, hi) ==
  [NoArgs EXCEPT !.lat_min = {lo}, !.lat_max = {hi}, !.lon_min = {lo}, !.lon_max = {hi}]
\* the command lines the model runs
ArgChoices ==
  { NoArgs,
    BoundsArgs(0, GridPerUnit \div 2),
    BoundsArgs(GridPerUnit \div 2, GridPerUnit),
    [NoArgs EXCEPT !.year = {2020}],
    [NoArgs EXCEPT !.orbit = {"ASCENDING"}],
    [NoArgs EXCEPT !.path = {35}] }

\* generate_tiles(area_bounds, tile_percentage) as execute sees it: the list
\* returned, or UnboundLocalError when the outer loop is entered and the inner
\* loop is not ("lat = tile_bounds['max_lat']" with tile_bounds unassigned)
GenerateTilesCall(b, p) ==
  IF ~(b.min_lat < b.max_lat) THEN [tiles |-> <<>>, outcome |-> "returned"]
  ELSE IF ~(b.min_lon < b.max_lon) THEN [tiles |-> <<>>, outcome |-> "UnboundLocalError"]
  ELSE LET w == GenerateTiles(b, p)
       IN  [tiles |-> w.tiles, outcome |-> IF w.returned THEN "returned" ELSE "running"]

\* the boolean masks of the branch without tiling
YearMask(g, a) == Truthy(a.year) => {g.Acquisition_Year} = a.year
OrbitMask(g, a) == a.orbit # None => {g.Ascending_or_Descending} = a.orbit
PathMask(g, a) == Truthy(a.path) => {g.Path_Number} = a.path
FilteredGranules(rows, a) ==
  { k \in 1..Len(rows) : YearMask(rows[k], a) /\ OrbitMask(rows[k], a) /\ PathMask(rows[k], a) }

\* "if lat_min and lat_max and lon_min and lon_max:"
BoundsGiven(a) ==
  Truthy(a.lat_min) /\ Truthy(a.lat_max) /\ Truthy(a.lon_min) /\ Truthy(a.lon_max)

\* the name "all_data" of the directory used without tiling
AllData == 0

InitDownload ==
  /\ impl = "GeoTileMapper"
  /\ \E n \in 0..MaxGranules : granules \in [1..n -> GranuleRows]
  /\ percentage \in {0, 50}
  /\ args \in ArgChoices
  /\ downloads = <<>>
  /\ xpc = "start"
  /\ area_bounds = [min_lat |-> 0, max_lat |-> 0, min_lon |-> 0, max_lon |-> 0]
  /\ pc = "idle"
  /\ lat = 0
  /\ lon = 0
  /\ tile_bounds = NoTile
  /\ tiles = <<>>
  /\ tile_id = FirstTileId
  /\ names = <<>>
  /\ run = 1
  /\ first_tiles = <<>>
  /\ bpc = "idle"
  /\ selected = {}
  /\ PairsIdle
  /\ BatchIdle
  /\ NoFirstBatch
  /\ UnwrapIdle
  /\ ScriptIdle
  /\ CsvIdle

\* "if tile_percentage:" taken: calculate_area_bounds and generate_tiles
ExecuteTiling ==
  /\ xpc = "start"
  /\ percentage # 0
  /\ area_bounds' = CalculateAreaBounds(granules)
  /\ LET r == GenerateTilesCall(area_bounds', percentage)
     IN  /\ tiles' = r.tiles
         /\ xpc' = IF r.outcome = "returned" THEN "filter" ELSE r.outcome
  /\ UNCHANGED <<impl, percentage, pc, lat, lon, tile_bounds, tile_id, names>>
  /\ UNCHANGED <<args, downloads, xrest>>
  /\ UNCHANGED <<pvars, rvars, dvars, gvars>>

\* the optional filtering by lat/lon range: the test is skipped unless all
\* four are true, and the method it calls is not defined in the class
FilterTiles ==
  /\ xpc = "filter"
  /\ xpc' = IF BoundsGiven(args) THEN "AttributeError" ELSE "enumerate"
  /\ UNCHANGED <<tvars, pvars, rvars, dvars, gvars>>
  /\ UNCHANGED <<args, downloads, xrest>>

\* one pass of "for i, tile in enumerate(tiles, start=1):": the granules of
\* the tile are selected and handed to download_granules under tile_<i>
TileStep ==
  /\ xpc = "enumerate"
  /\ tile_id <= Len(tiles)
  /\ tile_bounds' = tiles[tile_id]
  /\ selected' = SelectGranulesForTile(granules, tile_bounds')
  /\ downloads' = Append(downloads, [tile_name |-> tile_id, rows |-> selected'])
  /\ names' = Append(names, tile_id)
  /\ tile_id' = NextTileId(tile_id)
  /\ UNCHANGED <<impl, area_bounds, percentage, pc, lat, lon, tiles>>
  /\ UNCHANGED <<granules, bpc, args, xpc, xrest>>
  /\ UNCHANGED <<pvars, rvars, dvars>>

\* the for loop is exhausted and execute returns
TilesDone ==
  /\ xpc = "enumerate"
  /\ tile_id > Len(tiles)
  /\ xpc' = "done"
  /\ UNCHANGED <<tvars, pvars, rvars, dvars, gvars>>
  /\ UNCHANGED <<args, downloads, xrest>>

\* the else branch: no tiling, the filters, download_granules(filtered_granules)
ExecuteAll ==
  /\ xpc = "start"
  /\ percentage = 0
  /\ selected' = FilteredGranules(granules, args)
  /\ downloads' = <<[tile_name |-> AllData, rows |-> selected']>>
  /\ xpc' = "done"
  /\ UNCHANGED <<tvars, pvars, rvars, dvars>>
  /\ UNCHANGED <<granules, bpc, args, xrest>>

NextDownload ==
  \/ ExecuteTiling
  \/ FilterTiles
  \/ TileStep
  \/ TilesDone
  \/ ExecuteAll

SpecDownload == InitDownload /\ [][NextDownload]_vars

\* ------------------------------------------------------------ unwrap_driver
\* merge/ is an existing directory; ifgs are its directories holding
\* phasefilt.grd, sorted, named here by their rank
IfgDirs == 1..Len(ifgs)

\* what unwrap_one returns: (name, returncode, message_tail)
Result(d, rc, msg) == [name |-> d, rc |-> rc, msg |-> msg]

\* "if not force and (ifg_dir / "unwrap.grd").exists():"
SkipsIfg(d, dk) == ~uargs.force /\ d \in dk.unwrap

\* link_mask called when "mask_path and not (ifg_dir / mask_path.name).exists()"
LinkMask(d, dk) ==
  IF mask_path # None /\ d \notin dk.links
    THEN [dk EXCEPT !.links = @ \cup {d}]
    ELSE dk

\* snaphu_interp.csh run in the directory: unwrap.grd is written when it succeeds
Snaphu(d, dk) ==
  IF d \in fails THEN dk ELSE [dk EXCEPT !.unwrap = @ \cup {d}]
ReturnCode(d) == IF d \in fails THEN 1 ELSE 0

\* mutant of Update: the list is started anew with each result
UpdateOnlyLast(rs, res) == <<res>>
\* update(res): results.append(res)
Update(rs, res) == Append(rs, res)

\* the jobs that a worker thread has taken and not ended
Running == { d \in IfgDirs : jobs[d] \in {"check", "link", "cmd"} }

\* unwrap_one(d) may begin: in the for loop of the sequential branch after
\* update of the one before; in the pool when the jobs submitted before it
\* have been taken and a worker is free
CanStart(d) ==
  IF uargs.parallel <= 1
    THEN \A e \in 1..(d - 1) : jobs[e] = "collected"
    ELSE /\ \A e \in 1..(d - 1) : jobs[e] # "queued"
         /\ Cardinality(Running) < uargs.parallel

InitUnwrap ==
  /\ uargs \in [parallel : 1..MaxWorkers, force : BOOLEAN, dry_run : BOOLEAN,
                 build_coh_mask : BOOLEAN, mask : {None, {"mask_def.grd"}}]
  /\ \E n \in 0..MaxIfgs :
       /\ ifgs = [d \in 1..n |-> d]
       /\ disk0 \in [merge : {{}, {"mask_def.grd"}, {"landmask_ra.grd"}},
                      unwrap : SUBSET (1..n), links : {{}, 1..n}, corr : {{}, 1..n}]
       /\ fails \in SUBSET (1..n)
       /\ jobs = [d \in 1..n |-> "queued"]
       /\ futs = [d \in 1..n |-> NoResult]
  /\ disk = disk0
  /\ cmd_found \in BOOLEAN
  /\ mask_path = None
  /\ results = <<>>
  /\ commands = {}
  /\ report = [ok |-> 0, bad |-> 0]
  /\ upc = "start"
  /\ TilesOnlyIdle
  /\ PairsIdle
  /\ BatchIdle
  /\ DownloadIdle
  /\ NoFirstBatch
  /\ ScriptIdle
  /\ CsvIdle

\* 1) gather IFGs: "if not ifgs: sys.exit(1)"
GatherIfgs ==
  /\ upc = "start"
  /\ upc' = IF ifgs = <<>> THEN "exit1" ELSE "mask"
  /\ UNCHANGED <<uargs, ifgs, disk0, disk, fails, cmd_found, mask_path, jobs, futs,
                 results, commands, report>>
  /\ UNCHANGED <<tvars, pvars, rvars, dvars, gvars, urest>>

\* 2) --build-coh-mask given: build_coh_mask runs gmt grdmath twice, whatever
\* --dry-run says; gmt may fail at either call
BuildCohMask ==
  /\ upc = "mask"
  /\ uargs.build_coh_mask
  /\ IF disk.corr = {}
       THEN /\ upc' = "exit1"
            /\ UNCHANGED <<disk, commands, mask_path>>
       ELSE \E gmt \in {"ok", "stack fails", "mask fails"} :
              /\ commands' = commands \cup
                   (IF gmt = "stack fails" THEN {<<"gmt", "corr_stack.grd">>}
                    ELSE {<<"gmt", "corr_stack.grd">>, <<"gmt", "mask_def.grd">>})
              /\ disk' = [disk EXCEPT !.merge = @ \cup
                   (IF gmt = "stack fails" THEN {}
                    ELSE IF gmt = "mask fails" THEN {"corr_stack.grd"}
                    ELSE {"corr_stack.grd", "mask_def.grd"})]
              /\ mask_path' = IF gmt = "ok" THEN {"mask_def.grd"} ELSE mask_path
              /\ upc' = IF gmt = "ok" THEN "choose" ELSE "exit1"
  /\ UNCHANGED <<uargs, ifgs, disk0, fails, cmd_found, jobs, futs, results, report>>
  /\ UNCHANGED <<tvars, pvars, rvars, dvars, gvars, urest>>

\* "if args.build_coh_mask is not None:" not taken
NoCohMask ==
  /\ upc = "mask"
  /\ ~uargs.build_coh_mask
  /\ upc' = "choose"
  /\ UNCHANGED <<uargs, ifgs, disk0, disk, fails, cmd_found, mask_path, jobs, futs,
                 results, commands, report>>
  /\ UNCHANGED <<tvars, pvars, rvars, dvars, gvars, urest>>

\* "if args.mask: ... else: auto-detect a common mask name if present"
ChooseMask ==
  /\ upc = "choose"
  /\ IF uargs.mask # None
       THEN IF uargs.mask \subseteq disk.merge
              THEN mask_path' = uargs.mask /\ upc' = "run"
              ELSE mask_path' = mask_path /\ upc' = "exit1"
       ELSE /\ mask_path' =
                 IF "mask_def.grd" \in disk.merge THEN {"mask_def.grd"}
                 ELSE IF "landmask_ra.grd" \in disk.merge THEN {"landmask_ra.grd"}
                 ELSE mask_path
            /\ upc' = "run"
  /\ UNCHANGED <<uargs, ifgs, disk0, disk, fails, cmd_found, jobs, futs, results,
                 commands, report>>
  /\ UNCHANGED <<tvars, pvars, rvars, dvars, gvars, urest>>

\* 4) results = []; the for loop is entered, or the jobs are submitted
StartJobs ==
  /\ upc = "run"
  /\ results' = <<>>
  /\ upc' = "collect"
  /\ UNCHANGED <<uargs, ifgs, disk0, disk, fails, cmd_found, mask_path, jobs, futs,
                 commands, report>>
  /\ UNCHANGED <<tvars, pvars, rvars, dvars, gvars, urest>>

\* unwrap_one(d, ...) is called, by main or by a worker thread
JobStart(d) ==
  /\ upc = "collect"
  /\ jobs[d] = "queued"
  /\ CanStart(d)
  /\ jobs' = [jobs EXCEPT ![d] = "check"]
  /\ UNCHANGED <<uargs, ifgs, disk0, disk, fails, cmd_found, mask_path, futs, results,
                 commands, report, upc>>
  /\ UNCHANGED <<tvars, pvars, rvars, dvars, gvars, urest>>

\* unwrap_one: the test for unwrap.grd
JobCheck(d) ==
  /\ jobs[d] = "check"
  /\ IF SkipsIfg(d, disk)
       THEN /\ jobs' = [jobs EXCEPT ![d] = "finished"]
            /\ futs' = [futs EXCEPT ![d] = Result(d, 0, "[skip] unwrap.grd exists")]
       ELSE /\ jobs' = [jobs EXCEPT ![d] = "link"]
            /\ futs' = futs
  /\ UNCHANGED <<uargs, ifgs, disk0, disk, fails, cmd_found, mask_path, results,
                 commands, report, upc>>
  /\ UNCHANGED <<tvars, pvars, rvars, dvars, gvars, urest>>

\* unwrap_one: the mask is linked into the directory, before dry_run is looked at
JobLink(d) ==
  /\ jobs[d] = "link"
  /\ disk' = LinkMask(d, disk)
  /\ jobs' = [jobs EXCEPT ![d] = "cmd"]
  /\ UNCHANGED <<uargs, ifgs, disk0, fails, cmd_found, mask_path, futs, results,
                 commands, report, upc>>
  /\ UNCHANGED <<tvars, pvars, rvars, dvars, gvars, urest>>

\* unwrap_one: "if dry_run: return ..." and run(cmd, cwd=ifg_dir);
\* subprocess.run raises when the command is not found
JobCmd(d) ==
  /\ jobs[d] = "cmd"
  /\ IF uargs.dry_run
       THEN /\ jobs' = [jobs EXCEPT ![d] = "finished"]
            /\ futs' = [futs EXCEPT ![d] = Result(d, 0, "DRY")]
            /\ UNCHANGED <<disk, commands>>
       ELSE IF ~cmd_found
         THEN /\ jobs' = [jobs EXCEPT ![d] = "raised"]
              /\ UNCHANGED <<futs, disk, commands>>
         ELSE /\ jobs' = [jobs EXCEPT ![d] = "finished"]
              /\ futs' = [futs EXCEPT ![d] = Result(d, ReturnCode(d), "tail")]
              /\ disk' = Snaphu(d, disk)
              /\ commands' = commands \cup {<<"snaphu_interp.csh", d>>}
  /\ UNCHANGED <<uargs, ifgs, disk0, fails, cmd_found, mask_path, results, report, upc>>
  /\ UNCHANGED <<tvars, pvars, rvars, dvars, gvars, urest>>

\* update(res) in the for loop, or update(fut.result()) for a future that
\* as_completed hands over
Collect(d) ==
  /\ upc = "collect"
  /\ jobs[d] = "finished"
  /\ results' = Update(results, futs[d])
  /\ jobs' = [jobs EXCEPT ![d] = "collected"]
  /\ UNCHANGED <<uargs, ifgs, disk0, disk, fails, cmd_found, mask_path, futs,
                 commands, report, upc>>
  /\ UNCHANGED <<tvars, pvars, rvars, dvars, gvars, urest>>

\* the exception of unwrap_one reaches main: from the call in the for loop, or
\* from fut.result()
CollectRaises(d) ==
  /\ upc = "collect"
  /\ jobs[d] = "raised"
  /\ upc' = "FileNotFoundError"
  /\ UNCHANGED <<uargs, ifgs, disk0, disk, fails, cmd_found, mask_path, jobs, futs,
                 results, commands, report>>
  /\ UNCHANGED <<tvars, pvars, rvars, dvars, gvars, urest>>

\* 5) report: ok and bad are counted and printed
Report ==
  /\ upc = "collect"
  /\ \A d \in IfgDirs : jobs[d] = "collected"
  /\ report' = [ok |-> Cardinality({ k \in 1..Len(results) : results[k].rc = 0 }),
                bad |-> Cardinality({ k \in 1..Len(results) : results[k].rc # 0 })]
  /\ upc' = "done"
  /\ UNCHANGED <<uargs, ifgs, disk0, disk, fails, cmd_found, mask_path, jobs, futs,
                 results, commands>>
  /\ UNCHANGED <<tvars, pvars, rvars, dvars, gvars, urest>>

NextUnwrap ==
  \/ GatherIfgs
  \/ BuildCohMask
  \/ NoCohMask
  \/ ChooseMask
  \/ StartJobs
  \/ \E d \in IfgDirs : JobStart(d)
  \/ \E d \in IfgDirs : JobCheck(d)
  \/ \E d \in IfgDirs : JobLink(d)
  \/ \E d \in IfgDirs : JobCmd(d)
  \/ \E d \in IfgDirs : Collect(d)
  \/ \E d \in IfgDirs : CollectRaises(d)
  \/ Report

SpecUnwrap == InitUnwrap /\ [][NextUnwrap]_vars

\* main run without --build-coh-mask and without --mask
InitUnwrapJobs ==
  /\ InitUnwrap
  /\ ~uargs.build_coh_mask
  /\ uargs.mask = None

NextUnwrapJobs ==
  \/ GatherIfgs
  \/ NoCohMask
  \/ ChooseMask
  \/ StartJobs
  \/ \E d \in IfgDirs : JobStart(d)
  \/ \E d \in IfgDirs : JobCheck(d)
  \/ \E d \in IfgDirs : JobLink(d)
  \/ \E d \in IfgDirs : JobCmd(d)
  \/ \E d \in IfgDirs : Collect(d)
  \/ \E d \in IfgDirs : CollectRaises(d)
  \/ Report

SpecUnwrapJobs == InitUnwrapJobs /\ [][NextUnwrapJobs]_vars

\* ------------------------------------------------------------------- system
Init ==
  InitTiles \/ InitPairs \/ InitReconcile \/ InitBounds \/ InitDownload \/ InitUnwrap
  \/ InitPairsBoth \/ InitCsv
Next ==
  \/ NextTilesTwice \/ NextPairs \/ NextReconcile \/ NextBounds \/ NextDownload
  \/ NextUnwrap \/ NextPairsBoth \/ NextCsv
Spec == Init /\ [][Next]_vars

\* ------------------------------------------------------------ tiling claims
\* the grid cells of the bounding box
BoxCells(b) == (b.min_lat .. b.max_lat - 1) \X (b.min_lon .. b.max_lon - 1)
CellInTile(c, t) ==
  /\ t.min_lat <= c[1] /\ c[1] + 1 <= t.max_lat
  /\ t.min_lon <= c[2] /\ c[2] + 1 <= t.max_lon
TileInBox(t, b) ==
  /\ b.min_lat <= t.min_lat /\ t.max_lat <= b.max_lat
  /\ b.min_lon <= t.min_lon /\ t.max_lon <= b.max_lon
Max(a, b) == IF a >= b THEN a ELSE b
\* two tiles share more than an edge: their interiors meet
InteriorsMeet(t, u) ==
  /\ Max(t.min_lat, u.min_lat) < Min(t.max_lat, u.max_lat)
  /\ Max(t.min_lon, u.min_lon) < Min(t.max_lon, u.max_lon)
CoversExactly(ts, b) ==
  /\ \A c \in BoxCells(b) : \E k \in 1..Len(ts) : CellInTile(c, ts[k])
  /\ \A k \in 1..Len(ts) : TileInBox(ts[k], b)
  /\ \A j, k \in 1..Len(ts) : j # k => ~InteriorsMeet(ts[j], ts[k])

\* C1: for a region with min < max on both axes and a percentage > 0, the tiles
\* a tile generator returns cover the bounding box exactly: every point of the
\* box is in a tile, no tile reaches past the box, two tiles share at most an edge.
TilingCoverage ==
  (pc = "done" /\ percentage > 0) => CoversExactly(tiles, area_bounds)

\* generate_tiles alone does cover the box exactly (the part of C1 that holds)
GenerateTilesCovers ==
  (pc = "done" /\ percentage > 0 /\ impl = "GeoTileMapper")
    => CoversExactly(tiles, area_bounds)

\* C7: with a percentage > 0 every pass of the longitude walk strictly advances
\* lon and every pass of the latitude walk strictly advances lat.
WalkAdvances ==
  [][percentage > 0 =>
       /\ (InnerStep \/ CreateInnerStep) => lon' > lon
       /\ (InnerExit \/ CreateInnerExit) => lat' > lat]_vars

\* C8: the grid walk is never entered, and no tile is ever computed, with a
\* percentage <= 0.
RejectsNonPositivePercentage ==
  (pc \in {"outer", "inner"} \/ Len(tiles) > 0) => percentage > 0

\* C9: for a fixed region the tile count does not grow with the percentage: a
\* run with percentage p1 returns at least as many tiles as generate_tiles
\* returns for any p2 > p1.
TileCountMonotone ==
  (pc = "done" /\ impl = "GeoTileMapper" /\ percentage > 0) =>
    \A p2 \in Percentages :
      (p2 > percentage /\ GenerateTiles(area_bounds, p2).returned) =>
        Len(tiles) >= Len(GenerateTiles(area_bounds, p2).tiles)

\* C9 witness: a finished run that has strictly more tiles than a larger percentage
TileCountMonotoneWitness ==
  /\ pc = "done" /\ impl = "GeoTileMapper" /\ percentage > 0
  /\ \E p2 \in Percentages :
       /\ p2 > percentage
       /\ GenerateTiles(area_bounds, p2).returned
       /\ Len(tiles) > Len(GenerateTiles(area_bounds, p2).tiles)

\* (min_lat, min_lon) of t is before that of u, latitude first
RowMajorBefore(t, u) ==
  \/ t.min_lat < u.min_lat
  \/ t.min_lat = u.min_lat /\ t.min_lon < u.min_lon

\* C10: the tiles are in row-major order (minimum latitude ascending, then
\* minimum longitude ascending) and the k-th of them is named tile_k, k = 1..N.
RowMajorNumbering ==
  pc = "done" =>
    /\ Len(names) = Len(tiles)
    /\ \A k \in 1..Len(tiles) : names[k] = k
    /\ \A k \in 1..(Len(tiles) - 1) : RowMajorBefore(tiles[k], tiles[k + 1])

\* C10 witness: a finished run with at least two latitude bands of two tiles
RowMajorNumberingWitness ==
  /\ pc = "done"
  /\ Len(tiles) >= 4
  /\ Len(names) = Len(tiles)
  /\ tiles[1].min_lat = tiles[2].min_lat
  /\ tiles[1].min_lat < tiles[Len(tiles)].min_lat

\* ------------------------------------------------------ pair selection claims
\* the row of the table that holds granule g
RowOf(g) == df[g]
DaysApart(g, h) == Abs(RowOf(h).acquisition_date - RowOf(g).acquisition_date)
BaselineApart(g, h) == Abs(RowOf(h).orbit - RowOf(g).orbit)
SamePath(g, h) == RowOf(g).path_number = RowOf(h).path_number

\* C2: every returned pair is within both maxima, equality included: its
\* temporal separation in days is <= tmax and its baseline separation <= bmax.
PairsWithinThresholds ==
  /\ (ppc = "done" /\ script = "select_s1_pairs_from_postgres") =>
       \A k \in 1..Len(pairs) :
         /\ DaysApart(pairs[k].master, pairs[k].slave) <= tmax
         /\ BaselineApart(pairs[k].master, pairs[k].slave) <= bmax
         /\ pairs[k].delta_days = DaysApart(pairs[k].master, pairs[k].slave)
         /\ pairs[k].Bperp = BaselineApart(pairs[k].master, pairs[k].slave)
  /\ (ppc = "done" /\ script = "select_s1_pairs_from_postgres_") =>
       \A k \in 1..Len(pairs) :
         \E g, h \in 1..Len(df) :
           /\ g # h /\ SamePath(g, h)
           /\ pairs[k].Date1 = Strftime(RowOf(g).acquisition_date)
           /\ pairs[k].Date2 = Strftime(RowOf(h).acquisition_date)
           /\ pairs[k].DeltaT = DaysApart(g, h) /\ DaysApart(g, h) <= tmax
           /\ pairs[k].Bperp = BaselineApart(g, h) /\ BaselineApart(g, h) <= bmax

\* C2 witness: a returned pair that sits exactly on both maxima
PairsWithinThresholdsWitness ==
  /\ ppc = "done" /\ script = "select_s1_pairs_from_postgres"
  /\ tmax > 0 /\ bmax > 0
  /\ \E k \in 1..Len(pairs) :
       /\ DaysApart(pairs[k].master, pairs[k].slave) = tmax
       /\ BaselineApart(pairs[k].master, pairs[k].slave) = bmax

\* how often the pair of granules g and h is returned, in either order
TimesReturned(g, h) ==
  Cardinality({ k \in 1..Len(pairs) : {pairs[k].master, pairs[k].slave} = {g, h} })

\* C3: two distinct granules of one path whose separations are both within
\* the maxima (equality included) are returned as a pair exactly once.
PairSelectionComplete ==
  (ppc = "done" /\ script = "select_s1_pairs_from_postgres") =>
    \A g, h \in 1..Len(df) :
      (g # h /\ SamePath(g, h) /\ DaysApart(g, h) <= tmax /\ BaselineApart(g, h) <= bmax)
        => TimesReturned(g, h) = 1

\* C3 witness: one pair on both maxima is returned, another pair of the same
\* path is left out
PairSelectionCompleteWitness ==
  /\ ppc = "done" /\ script = "select_s1_pairs_from_postgres"
  /\ tmax > 0 /\ bmax > 0
  /\ \E g, h \in 1..Len(df) :
       /\ g # h /\ SamePath(g, h)
       /\ DaysApart(g, h) = tmax /\ BaselineApart(g, h) = bmax
       /\ TimesReturned(g, h) = 1
  /\ \E g, h \in 1..Len(df) :
       /\ g # h /\ SamePath(g, h) /\ TimesReturned(g, h) = 0

\* C4: in every pair a pair-selection routine returns, reference and
\* secondary are two different granules of the same orbit path.
PairsDistinctSamePath ==
  /\ (ppc = "done" /\ script = "select_s1_pairs_from_postgres") =>
       \A k \in 1..Len(pairs) :
         pairs[k].master # pairs[k].slave /\ SamePath(pairs[k].master, pairs[k].slave)
  /\ (ppc = "done" /\ script = "initialPairs") =>
       \A k \in 1..Len(pairs) :
         pairs[k][1] # pairs[k][2] /\ SamePath(pairs[k][1], pairs[k][2])

\* select_s1_pairs_from_db alone pairs only within a path (the part of C4 that holds)
DbPairsDistinctSamePath ==
  (ppc = "done" /\ script = "select_s1_pairs_from_postgres") =>
    \A k \in 1..Len(pairs) :
      pairs[k].master # pairs[k].slave /\ SamePath(pairs[k].master, pairs[k].slave)

\* ------------------------------------------------------ reconciliation claims
\* how often input row r is in an output list
InList(list, r) == Count(list, KeptRow(rscript, r))
KeptRows == { KeptRow(rscript, r) : r \in RowsOf(pairs_df) }

\* C5: when reconciliation has finished, every input pair is in exactly one of
\* valid, missing and ambiguous, as often as it is in the input, and the three
\* lists hold nothing but input pairs, whatever the length of the input.
ReconcilePartitions ==
  rpc = "done" =>
    /\ \A r \in RowsOf(pairs_df) :
         /\ InList(valid, r) + InList(missing, r) + InList(ambiguous, r)
              = Count(pairs_df, r)
         /\ Cardinality({ l \in {1, 2, 3} :
                            InList(<<valid, missing, ambiguous>>[l], r) > 0 }) = 1
    /\ RowsOf(valid) \cup RowsOf(missing) \cup RowsOf(ambiguous) \subseteq KeptRows

\* C6: a pair is valid only if the locator found exactly one file for the
\* reference and exactly one for the secondary; a pair with several files on a
\* side is kept as ambiguous, a pair with no file on a side as missing.
ValidOnlyIfUnique ==
  \A r \in RowsOf(pairs_df) :
    LET nref == zips[<<r.path, r.master>>]
        nsec == zips[<<r.path, r.slave>>]
    IN  /\ InList(valid, r) > 0 => (nref = 1 /\ nsec = 1)
        /\ (rpc = "done" /\ (nref = 0 \/ nsec = 0)) => InList(missing, r) > 0
        /\ (rpc = "done" /\ nref > 0 /\ nsec > 0 /\ (nref > 1 \/ nsec > 1))
             => InList(ambiguous, r) > 0

\* ------------------------------------------------------- pair order claims
\* pair p is emitted before pair q: lower path first, then lower reference
\* row, then lower secondary row (rows are in timestamp order)
PairOrderBefore(p, q) ==
  \/ p.path < q.path
  \/ p.path = q.path /\ p.master < q.master
  \/ p.path = q.path /\ p.master = q.master /\ p.slave < q.slave

\* C11: the pairs are returned path by path in ascending path number, and
\* within a path by reference row, then secondary row, of the timestamp order.
PairsInPathOrder ==
  (ppc = "done" /\ script = "select_s1_pairs_from_postgres") =>
    \A j, k \in 1..Len(pairs) : j < k => PairOrderBefore(pairs[j], pairs[k])

CornerLats(g) == {g.Near_Start_Lat, g.Far_Start_Lat, g.Near_End_Lat, g.Far_End_Lat}
CornerLons(g) == {g.Near_Start_Lon, g.Far_Start_Lon, g.Near_End_Lon, g.Far_End_Lon}

\* C13: the returned region is the extrema over all four corners of every
\* granule: every corner is inside it and each bound is the latitude or
\* longitude of some corner.
BoundsAreExtrema ==
  (bpc = "returned" /\ granules # <<>>) =>
    /\ \A k \in 1..Len(granules) :
         /\ \A x \in CornerLats(granules[k]) :
              area_bounds.min_lat <= x /\ x <= area_bounds.max_lat
         /\ \A y \in CornerLons(granules[k]) :
              area_bounds.min_lon <= y /\ y <= area_bounds.max_lon
    /\ \E k \in 1..Len(granules) : area_bounds.min_lat \in CornerLats(granules[k])
    /\ \E k \in 1..Len(granules) : area_bounds.max_lat \in CornerLats(granules[k])
    /\ \E k \in 1..Len(granules) : area_bounds.min_lon \in CornerLons(granules[k])
    /\ \E k \in 1..Len(granules) : area_bounds.max_lon \in CornerLons(granules[k])

\* compute_bounding_area alone returns the extrema (the part of C13 that holds)
BoundingAreaIsExtrema ==
  impl = "area_tiler" => BoundsAreExtrema

\* a region with numbers for bounds and min < max on both axes
ProperRegion(b) ==
  /\ NaN \notin {b.min_lat, b.max_lat, b.min_lon, b.max_lon}
  /\ b.min_lat < b.max_lat
  /\ b.min_lon < b.max_lon

\* C14: the bounds computation hands on a region only if it has min < max on
\* both axes, and it fails in no other way than with the errors for an empty
\* collection and for a degenerate region.
ProperRegionOrError ==
  /\ bpc \in {"returned", "selected"} => ProperRegion(area_bounds)
  /\ bpc # "ValueError"

\* all four corners of granule g are within the bounds of tile t
CornersWithin(g, t) ==
  /\ \A x \in CornerLats(g) : t.min_lat <= x /\ x <= t.max_lat
  /\ \A y \in CornerLons(g) : t.min_lon <= y /\ y <= t.max_lon

\* C15: a granule is selected for a tile if and only if all four corners of
\* its footprint are within the tile's latitude and longitude bounds.
ContainmentSelection ==
  bpc = "selected" =>
    \A k \in 1..Len(granules) :
      k \in selected <=> CornersWithin(granules[k], tile_bounds)

\* what is left of C15: a granule with all four corners in the tile is selected
ContainedIsSelected ==
  bpc = "selected" =>
    \A k \in 1..Len(granules) :
      CornersWithin(granules[k], tile_bounds) => k \in selected

\* ------------------------------------------------- missing baseline claims
\* the granules of the table whose baseline-proxy value is missing
MissingBaseline == { g \in 1..Len(df) : df[g].orbit = NaN }
\* the table without them
WithBaseline == SelectSeq(df, LAMBDA r : r.orbit # NaN)

\* C16: a granule with a missing baseline-proxy value is in no returned pair
\* and is reported in the skipped list, and the other granules are paired as
\* if it were not in the table; pair selection does not fail over it.
SkipsMissingBaseline ==
  /\ ppc # "TypeError"
  /\ (ppc = "done" /\ script = "select_s1_pairs_from_postgres") =>
    /\ \A g \in MissingBaseline :
         /\ \A k \in 1..Len(pairs) : g \notin {pairs[k].master, pairs[k].slave}
         /\ g \in skipped
    /\ pairs = SelectS1PairsFromDb(WithBaseline, bmax, tmax)

\* what is left of C16 without the skipped list
MissingBaselineUnpaired ==
  (ppc = "done" /\ script = "select_s1_pairs_from_postgres") =>
    /\ \A g \in MissingBaseline :
         \A k \in 1..Len(pairs) : g \notin {pairs[k].master, pairs[k].slave}
    /\ pairs = SelectS1PairsFromDb(WithBaseline, bmax, tmax)

\* ------------------------------------------------------- path cap claims
\* the caps on the size of a path partition that a caller may ask for
PathCaps == 1..MaxRows
\* the number of granules of a path
PartitionSize(path) == Len(PathRows(df, path))

\* C17: whatever cap the caller sets, a path partition with more granules than
\* the cap yields no pair and is reported as failed, and the pairs of the
\* other partitions are returned.
PathCapEnforced ==
  (ppc = "done" /\ script = "select_s1_pairs_from_postgres") =>
    \A cap \in PathCaps :
      /\ \A path \in Paths :
           PartitionSize(path) > cap =>
             /\ \A k \in 1..Len(pairs) : pairs[k].path # path
             /\ path \in path_errors
      /\ \A g, h \in 1..Len(df) :
           ( /\ g < h /\ SamePath(g, h)
             /\ PartitionSize(df[g].path_number) <= cap
             /\ DaysApart(g, h) <= tmax /\ BaselineApart(g, h) <= bmax )
             => TimesReturned(g, h) = 1

\* ------------------------------------------------- filesystem error claims
\* C18: when looking up the files of a pair raises a filesystem error, the
\* pair is added to missing and the loop goes on with the next pair: the
\* error does not end the batch.
FilesystemErrorIsLocal ==
  [][RowRaises =>
       /\ rpc' = "loop"
       /\ InList(missing', pairs_df[row_i].row)
            = InList(missing, pairs_df[row_i].row) + 1]_vars

\* ------------------------------------------------------------ example claims
\* the tile with the given corners, in quarter degrees
QuarterTile(la, lo) ==
  [min_lat |-> la, max_lat |-> la + 1, min_lon |-> lo, max_lon |-> lo + 1]

\* C19: for the region lat 10 to 10.5, lon 20 to 20.5 and percentage 50 the
\* generator returns four tiles of a quarter degree by a quarter degree, two
\* latitude bands of two tiles, named tile_1 to tile_4 in row-major order.
ExampleTiling ==
  (pc = "done" /\ impl = "GeoTileMapper" /\ area_bounds = ExampleRegion
     /\ percentage = 50 /\ run = 1) =>
    /\ tiles = <<QuarterTile(40, 80), QuarterTile(40, 81),
                 QuarterTile(41, 80), QuarterTile(41, 81)>>
    /\ names = <<1, 2, 3, 4>>

\* C19 witness: the run of the example has finished
ExampleTilingWitness ==
  /\ pc = "done" /\ impl = "GeoTileMapper" /\ area_bounds = ExampleRegion
  /\ percentage = 50
  /\ Len(names) = 4

\* C20: for granules of path 35 of 2020-01-01, 2020-01-13 and 2020-02-20 with
\* baseline values 10, 40 and 15, tmax 20 and bmax 50, exactly one pair is
\* returned: (2020-01-01, 2020-01-13), 12 days and 30 apart.
ExamplePairs ==
  (ppc = "done" /\ script = "select_s1_pairs_from_postgres"
     /\ df = ExampleTable /\ bmax = 50 /\ tmax = 20) =>
    /\ pairs = <<[master |-> 1, slave |-> 2, path |-> 35, Bperp |-> 30, delta_days |-> 12]>>
    /\ Strftime(df[pairs[1].master].acquisition_date) = 20200101
    /\ Strftime(df[pairs[1].slave].acquisition_date) = 20200113
    /\ Strftime(df[3].acquisition_date) = 20200220

\* C20 witness: pair selection has returned for the example
ExamplePairsWitness ==
  /\ ppc = "done" /\ script = "select_s1_pairs_from_postgres"
  /\ df = ExampleTable /\ bmax = 50 /\ tmax = 20
  /\ Len(pairs) = 1

\* ----------------------------------------------------------- download claims
AllBoundsSupplied(a) ==
  a.lat_min # None /\ a.lat_max # None /\ a.lon_min # None /\ a.lon_max # None

TileWithinArgs(t, a) ==
  /\ \A lo \in a.lat_min : t.min_lat >= lo
  /\ \A hi \in a.lat_max : t.max_lat <= hi
  /\ \A lo \in a.lon_min : t.min_lon >= lo
  /\ \A hi \in a.lon_max : t.max_lon <= hi

\* C21: when lat_min, lat_max, lon_min and lon_max are all supplied (0
\* included), the sub-filter is applied before the tiles are processed, and
\* every tile that is processed lies within the supplied bounds.
SubFilterApplied ==
  AllBoundsSupplied(args) =>
    /\ xpc # "AttributeError"
    /\ \A k \in 1..Len(downloads) :
         downloads[k].tile_name # AllData =>
           TileWithinArgs(tiles[downloads[k].tile_name], args)

\* with a bound of 0 the filter is skipped and the tiles outside are processed
SubFilterZeroRespected ==
  (AllBoundsSupplied(args) /\ ~BoundsGiven(args)) =>
    \A k \in 1..Len(downloads) :
      downloads[k].tile_name # AllData =>
        TileWithinArgs(tiles[downloads[k].tile_name], args)

MatchesSupplied(g, a) ==
  /\ a.year # None => {g.Acquisition_Year} = a.year
  /\ a.orbit # None => {g.Ascending_or_Descending} = a.orbit
  /\ a.path # None => {g.Path_Number} = a.path

\* C22: every granule handed to download_granules matches every supplied
\* year, orbit and path filter, also when the granules are downloaded per tile.
DownloadsMatchFilters ==
  \A k \in 1..Len(downloads) :
    \A g \in downloads[k].rows : MatchesSupplied(granules[g], args)

\* without tiling the filters are applied
UntiledDownloadsMatchFilters ==
  percentage = 0 => DownloadsMatchFilters

PositiveExtent(g) ==
  Cardinality(CornerLats(g)) > 1 /\ Cardinality(CornerLons(g)) > 1

\* the tiles the g-th granule was selected for
TilesOf(g) == { k \in 1..Len(downloads) : g \in downloads[k].rows }

\* C26: over the grid of generate_tiles a granule is assigned to at most one
\* tile, unless all its corners lie on an edge the tiles share; no granule
\* with positive extent in latitude and longitude is selected for two tiles.
AtMostOneTile ==
  percentage # 0 =>
    \A g \in 1..Len(granules) :
      /\ \A i \in TilesOf(g) : \A j \in TilesOf(g) :
           i # j => /\ CornersWithin(granules[g], tiles[i])
                    /\ CornersWithin(granules[g], tiles[j])
                    /\ ~InteriorsMeet(tiles[i], tiles[j])
      /\ PositiveExtent(granules[g]) => Cardinality(TilesOf(g)) <= 1

\* ------------------------------------------------------------ dry run claims
\* C23: with --dry_run the batch generator writes no topsApp XML file, and
\* every pair is classified valid or missing as in a run without --dry_run on
\* the same inputs.
DryRunWritesNothing ==
  /\ dry_run => xmls = {}
  /\ (run = 2 /\ rpc = "done") => (valid = first_valid /\ missing = first_missing)

\* C23 witness: the run without --dry_run has ended and written a file
\* for a pair that the dry run before it classified as valid
DryRunWritesNothingWitness ==
  /\ run = 2 /\ rpc = "done"
  /\ Len(first_valid) > 0
  /\ xmls # {}

\* C24: with --dry-run unwrap_driver runs no external command, neither gmt
\* nor snaphu_interp.csh, and changes nothing on disk: no mask file appears in
\* merge/ and no mask link in any interferogram directory.
UnwrapDryRunChangesNothing ==
  uargs.dry_run =>
    /\ commands = {}
    /\ disk.merge = disk0.merge
    /\ disk.links = disk0.links
    /\ disk = disk0

\* with --dry-run snaphu_interp.csh is not run and no unwrap.grd is written
UnwrapDryRunSkipsSnaphu ==
  uargs.dry_run =>
    /\ \A d \in IfgDirs : <<"snaphu_interp.csh", d>> \notin commands
    /\ disk.unwrap = disk0.unwrap

\* ---------------------------------------------------------- unwrap job claims
\* what unwrap_one returns for directory d when the directories are gone
\* through one after the other
SequentialResult(d) ==
  IF ~uargs.force /\ d \in disk0.unwrap THEN Result(d, 0, "[skip] unwrap.grd exists")
  ELSE IF uargs.dry_run THEN Result(d, 0, "DRY")
  ELSE Result(d, ReturnCode(d), "tail")

\* C30: for any number of workers and any completion order, every detected
\* interferogram directory contributes exactly one result, the OK count plus
\* the FAIL count of the summary is the number of interferograms, and the
\* results are those of a sequential run.
OneResultPerIfg ==
  upc = "done" =>
    /\ \A d \in IfgDirs :
         Cardinality({ k \in 1..Len(results) : results[k].name = d }) = 1
    /\ Len(results) = Len(ifgs)
    /\ report.ok + report.bad = Len(ifgs)
    /\ { results[k] : k \in 1..Len(results) } = { SequentialResult(d) : d \in IfgDirs }

\* C30 witness: the summary is printed after two jobs ran in the pool at the
\* same time and the later directory was collected first, one OK and one FAIL
OneResultPerIfgWitness ==
  /\ upc = "done"
  /\ uargs.parallel > 1
  /\ Len(results) >= 2
  /\ results[1].name > results[2].name
  /\ report.ok >= 1 /\ report.bad >= 1

\* ---------------------------------------------------- master date claims
\* C25: in every pair select_s1_pairs_from_db returns, the acquisition date
\* of the master is earlier than or equal to that of the slave, whatever the
\* order of the rows of equal and of different dates.
MasterNotLater ==
  (ppc = "done" /\ script = "select_s1_pairs_from_postgres") =>
    \A k \in 1..Len(pairs) :
      RowOf(pairs[k].master).acquisition_date <= RowOf(pairs[k].slave).acquisition_date

\* C25 witness: a pair of rows of different dates and a pair of rows of one
\* date have been returned
MasterNotLaterWitness ==
  /\ ppc = "done" /\ script = "select_s1_pairs_from_postgres"
  /\ \E k \in 1..Len(pairs) :
       RowOf(pairs[k].master).acquisition_date < RowOf(pairs[k].slave).acquisition_date
  /\ \E k \in 1..Len(pairs) :
       RowOf(pairs[k].master).acquisition_date = RowOf(pairs[k].slave).acquisition_date

\* -------------------------------------------------- script agreement claims
\* the rows of each pair the function returned
DbKept == [k \in 1..Len(pairs) |-> <<pairs[k].path, pairs[k].master, pairs[k].slave>>]

\* C27: for the same table, bmax and tmax, select_s1_pairs_from_postgres.py
\* and select_s1_pairs_from_postgres_.py retain the same pairs of rows per
\* path, in the same order.
ScriptsSelectSamePairs ==
  (ppc = "done" /\ spc = "done") =>
    /\ s_kept = DbKept
    /\ Len(s_pairs) = Len(pairs)
    /\ \A k \in 1..Len(pairs) :
         /\ s_pairs[k].Date1 = Strftime(RowOf(pairs[k].master).acquisition_date)
         /\ s_pairs[k].Date2 = Strftime(RowOf(pairs[k].slave).acquisition_date)
         /\ s_pairs[k].Bperp = pairs[k].Bperp
         /\ s_pairs[k].DeltaT = pairs[k].delta_days

\* C27 witness: both have ended on three rows of one path, with a pair of rows
\* retained and a pair of rows left out
ScriptsSelectSamePairsWitness ==
  /\ ppc = "done" /\ spc = "done"
  /\ Len(df) = 3
  /\ Len(UniquePaths(df)) = 1
  /\ Len(s_kept) \in 1..2

\* ------------------------------------------------------ monotonicity claims
\* the elements of a list
Range(seq) == { seq[k] : k \in 1..Len(seq) }

\* C28: every pair select_s1_pairs_from_db selects under thresholds
\* (tmax1, bmax1) is also selected under (tmax2, bmax2) when tmax1 <= tmax2
\* and bmax1 <= bmax2.
SelectionMonotone ==
  (ppc = "done" /\ script = "select_s1_pairs_from_postgres") =>
    \A tmax1 \in 0..tmax, bmax1 \in 0..bmax :
      ~OrbitTypeError(df, tmax1) =>
        Range(SelectS1PairsFromDb(df, bmax1, tmax1)) \subseteq Range(pairs)

\* C28 witness: the function has returned more pairs than it selects under
\* smaller thresholds, which select some
SelectionMonotoneWitness ==
  /\ ppc = "done" /\ script = "select_s1_pairs_from_postgres"
  /\ df # ExampleTable
  /\ \E tmax1 \in 0..tmax, bmax1 \in 0..bmax :
       LET fewer == SelectS1PairsFromDb(df, bmax1, tmax1)
       IN  0 < Len(fewer) /\ Len(fewer) < Len(pairs)

\* ------------------------------------------------------- CSV pair claims
\* C29: getInitPairs returns pairs of positions (a, b) with a < b strictly,
\* each naming two distinct files of the filtered list.
CsvPairsStrictlyOrdered ==
  cpc = "done" =>
    \A p \in ipairs :
      /\ p[1] \in 1..Len(file_list)
      /\ p[2] \in 1..Len(file_list)
      /\ p[1] < p[2]
      /\ file_list[p[1]] # file_list[p[2]]

\* the pairs are ordered and name files of the list, strictly so for every
\* row whose master and slave differ
CsvPairsOrdered ==
  cpc = "done" =>
    /\ \A p \in ipairs :
         /\ p[1] \in 1..Len(file_list)
         /\ p[2] \in 1..Len(file_list)
         /\ p[1] <= p[2]
         /\ p[1] = p[2] => \E k \in 1..Len(data) :
                              data[k][1] = data[k][2] /\ data[k][1] = file_list[p[1]]
    /\ \A k, l \in 1..Len(data) :
         (data[k][1] = data[l][2] /\ data[k][2] = data[l][1]) =>
           getInitPairs(file_list, <<data[k][1]>>, <<data[k][2]>>)
             = getInitPairs(file_list, <<data[l][1]>>, <<data[l][2]>>)

====
